---- MODULE Spec2Model ----
(***************************************************************************)
(* A model of the monkey-rs interpreter: the recursive-descent parser of   *)
(* src/src/ast.rs and the tree-walking evaluator of src/src/eval.rs.       *)
(*                                                                         *)
(* Spec       an evaluator session: nodes are evaluated one after another  *)
(*            against the evaluator's global environment.                  *)
(* SpecParser a parser over a token slice: the parsing methods are called  *)
(*            on it as the unit tests of ast.rs call them.                 *)
(***************************************************************************)
EXTENDS Integers, Sequences, FiniteSets, TLC

VARIABLES
    global_env,       \* Evaluator.global_env: the store of the global Environment
    overflow_checks,  \* the build profile: TRUE when i32 arithmetic is overflow-checked
    node,             \* the node handed to the last call of Evaluator::eval
    result,           \* what that call returned (or how it aborted)
    env_before,       \* global_env as it was when that call started
    steps,            \* the number of eval calls made so far
    tokens,           \* Parser.tokens
    index,            \* Parser.index
    presult,          \* Parser.result
    pcall,            \* the Parser method called last
    pfrom,            \* Parser.index when that method was called
    pret,             \* what that method returned (or how it aborted)
    src,              \* Lexer.src, a sequence of characters
    position,         \* Lexer.position
    read_position,    \* Lexer.read_position
    ch,               \* Lexer.ch ("" for None)
    tok,              \* what the last call of Lexer::next_token returned
    collected,        \* v: the tokens the loop of repl::start has collected
    line,             \* the statements of the line repl::start read last
    printed,          \* the objects it printed for them
    line_env          \* global_env as it was when that line was read

evars == <<global_env, overflow_checks, node, result, env_before, steps>>
pvars == <<tokens, index, presult, pcall, pfrom, pret>>
lvars == <<src, position, read_position, ch, tok, collected>>
rvars == <<line, printed, line_env>>
vars == <<global_env, overflow_checks, node, result, env_before, steps,
          tokens, index, presult, pcall, pfrom, pret,
          src, position, read_position, ch, tok, collected,
          line, printed, line_env>>

\* No Lexer has been made and no line has been read.
LexerIdle ==
    /\ src = <<>>
    /\ position = 0
    /\ read_position = 0
    /\ ch = ""
    /\ tok = [t |-> "None"]
    /\ collected = <<>>

ReplIdle ==
    /\ line = <<>>
    /\ printed = <<>>
    /\ line_env = <<>>

(***************************************************************************)
(* Bounds of the model.                                                    *)
(***************************************************************************)
MaxSteps == 3     \* eval calls in one session
MaxDepth == 6     \* nested function activations before the stack is exhausted
MaxTerms == 4     \* operands in a generated operator chain
MaxStmts == 2
MaxTokens == 3
MaxChars == 3
MaxIdleCalls == 2     \* statements in a generated program

\* F applied to the value of v: v is computed once and then named.
Then(v, F(_)) == CHOOSE y \in { F(w) : w \in {v} } : TRUE

(***************************************************************************)
(* i32                                                                     *)
(***************************************************************************)
I32Max == 2147483647
I32Min == (-I32Max) - 1

Abs(n) == IF n < 0 THEN -n ELSE n

\* The mathematical sum of two i32 lies in the i32 range.
AddFits(l, r) ==
    /\ r > 0 => l <= I32Max - r
    /\ r < 0 => l >= I32Min - r

\* l + r modulo 2^32, as a signed i32 (two's complement wrap-around).
WrappingAdd(l, r) ==
    IF AddFits(l, r) THEN l + r
    ELSE IF r > 0 THEN (l + I32Min) + (r + I32Min)
    ELSE (l - I32Min) + (r - I32Min)

\* The mathematical product of two i32 lies in the i32 range.
MulFits(l, r) ==
    IF l = 0 \/ r = 0 THEN TRUE
    ELSE IF l = I32Min THEN r = 1
    ELSE IF r = I32Min THEN l = 1
    ELSE IF (l > 0) = (r > 0) THEN Abs(l) <= I32Max \div Abs(r)
    ELSE \/ Abs(l) <= I32Max \div Abs(r)
         \/ /\ Abs(r) % 2 = 0
            /\ 1073741824 % (Abs(r) \div 2) = 0
            /\ Abs(l) = 1073741824 \div (Abs(r) \div 2)

\* l * r modulo 2^32, as a signed i32: shift-and-add over the 32 bits of r.
\* t is <<l shifted, the bits of r left, the number of bits left, the sum>>.
RECURSIVE WrappingMulBits(_)
WrappingMulBits(t) ==
    IF t[3] = 0 THEN t[4]
    ELSE WrappingMulBits(<<WrappingAdd(t[1], t[1]),
                           t[2] \div 2,
                           t[3] - 1,
                           IF t[2] % 2 = 1 THEN WrappingAdd(t[4], t[1]) ELSE t[4]>>)

WrappingMul(l, r) == WrappingMulBits(<<l, r, 32, 0>>)

(***************************************************************************)
(* Object (eval.rs): the values of the evaluator.  An evaluation that does *)
(* not return is an Abort: a panic, or the exhaustion of the call stack.   *)
(***************************************************************************)
Integer(i) == [type |-> "Integer", i |-> i]
Bool(b) == [type |-> "Bool", b |-> b]
Null == [type |-> "Null"]
FnDef(args, stmts, env) == [type |-> "FnDef", args |-> args, stmts |-> stmts, env |-> env]
Panic(msg) == [type |-> "Panic", msg |-> msg]
StackOverflow == [type |-> "StackOverflow"]
NoObject == [type |-> "None"]

IsAbort(o) == o.type \in {"Panic", "StackOverflow"}
IsValue(o) == o.type \in {"Integer", "Bool", "Null", "FnDef"}

(***************************************************************************)
(* Environment (eval.rs): store is a map from names to Objects.            *)
(***************************************************************************)
EnvironmentNew == <<>>

\* A lookup that gives a function returning 0 for a name that is not bound.
EnvGetOrFn(env, name) ==
    IF name \in DOMAIN env THEN env[name]
    ELSE [type |-> "FnDef", args |-> <<>>, stmts |-> <<[kind |-> "Int", i |-> 0]>>,
          env |-> <<>>]

\* A lookup that gives Null for a name that is not bound.
EnvGetOrNull(env, name) ==
    IF name \in DOMAIN env THEN env[name] ELSE Null

EnvGet(env, name) ==
    IF name \in DOMAIN env THEN env[name] ELSE Panic("Undefined variable")

\* An insert that keeps the value a bound name already has.
EnvSetKeepOld(env, name, value) == env @@ (name :> value)

EnvSet(env, name, value) == (name :> value) @@ env

\* Object::func: the function object starts with a fresh, empty Environment.
ObjectFunc(args, stmts) == FnDef(args, stmts, EnvironmentNew)

(***************************************************************************)
(* AST nodes, as Evaluator::eval matches them.                             *)
(***************************************************************************)
IntLit(i) == [kind |-> "Int", i |-> i]
BoolLit(b) == [kind |-> "Bool", b |-> b]
Ident(s) == [kind |-> "Ident", s |-> s]
Add(l, r) == [kind |-> "Add", lhs |-> l, rhs |-> r]
Minus(l, r) == [kind |-> "Minus", lhs |-> l, rhs |-> r]
Multi(l, r) == [kind |-> "Multi", lhs |-> l, rhs |-> r]
LT(l, r) == [kind |-> "LT", lhs |-> l, rhs |-> r]
LTE(l, r) == [kind |-> "LTE", lhs |-> l, rhs |-> r]
If(c, s, e) == [kind |-> "If", cond |-> c, stmt |-> s, else_stmt |-> <<e>>]
IfNoElse(c, s) == [kind |-> "If", cond |-> c, stmt |-> s, else_stmt |-> <<>>]
Return(e) == [kind |-> "Return", expr |-> e]
Compound(stmts) == [kind |-> "Compound", stmts |-> stmts]
Let(name, e) == [kind |-> "Let", name |-> name, expr |-> e]
FnLit(args, stmts) == [kind |-> "FnDef", args |-> args, stmts |-> stmts]
FnCall(name, args) == [kind |-> "FnCall", name |-> name, args |-> args]
NoNode == [kind |-> "None"]

BinaryKinds == {"Add", "Minus", "Multi", "LT", "LTE"}

(***************************************************************************)
(* Evaluator::eval                                                         *)
(***************************************************************************)
\* l + r on i32: panics when overflow-checked, wraps otherwise.
I32Add(l, r) ==
    IF AddFits(l, r) THEN Integer(l + r)
    ELSE IF overflow_checks THEN Panic("attempt to add with overflow")
    ELSE Integer(WrappingAdd(l, r))

\* l * r on i32: panics when overflow-checked, wraps otherwise.
I32Mul(l, r) ==
    IF MulFits(l, r) THEN Integer(l * r)
    ELSE IF overflow_checks THEN Panic("attempt to multiply with overflow")
    ELSE Integer(WrappingMul(l, r))

EvalAdd(l, r) ==
    IF l.type = "Integer" /\ r.type = "Integer" THEN I32Add(l.i, r.i)
    ELSE Panic("+ operator supports only integer")

EvalMinus(l, r) ==
    IF l.type = "Integer" /\ r.type = "Integer" THEN I32Add(l.i, r.i)
    ELSE Panic("+ operator supports only integer")

\* The Multi arm with the sum of the Add arm.
EvalMultiAsAdd(l, r) ==
    IF l.type = "Integer" /\ r.type = "Integer" THEN I32Add(l.i, r.i)
    ELSE Panic("* operator supports only integer")

EvalMulti(l, r) ==
    IF l.type = "Integer" /\ r.type = "Integer" THEN I32Mul(l.i, r.i)
    ELSE Panic("* operator supports only integer")

EvalLT(l, r) ==
    IF l.type = "Integer" /\ r.type = "Integer" THEN Bool(l.i < r.i)
    ELSE Panic("< operator supports only integer")

EvalLTE(l, r) ==
    IF l.type = "Integer" /\ r.type = "Integer" THEN Bool(l.i <= r.i)
    ELSE Panic("<= operator supports only integer")

EvalBinary(kind, l, r) ==
    CASE kind = "Add" -> EvalAdd(l, r)
      [] kind = "Minus" -> EvalMinus(l, r)
      [] kind = "Multi" -> EvalMulti(l, r)
      [] kind = "LT" -> EvalLT(l, r)
      [] kind = "LTE" -> EvalLTE(l, r)

\* A condition match that sends only Bool(false) to the alternative.
TakesElseBoolOnly(c) == c = Bool(FALSE)

\* The first arm of the match on the condition of an If: the alternative is taken.
TakesElse(c) ==
    \/ c = Integer(0)
    \/ c = Bool(FALSE)
    \/ c = Null

\* A last-object rule that gives Null when there is no object.
LastObjectOrNull(v) ==
    IF Len(v) = 0 THEN Null ELSE v[Len(v)]

\* v.get(v.len() - 1).unwrap().clone(): the last evaluated object; with no
\* object, v.len() - 1 underflows and the call panics in either build.
LastObject(v) ==
    IF Len(v) = 0 THEN Panic("no last object") ELSE v[Len(v)]

\* A binding loop that stops after the first parameter.
ZipSetFirst(env, args, values) ==
    IF args = <<>> \/ values = <<>> THEN env
    ELSE EnvSet(env, Head(args), Head(values))

\* A binding loop that binds the parameters left without an argument to Null.
RECURSIVE ZipSetPadded(_, _, _)
ZipSetPadded(env, args, values) ==
    IF args = <<>> THEN env
    ELSE IF values = <<>>
         THEN ZipSetPadded(env @@ (Head(args) :> Null), Tail(args), <<>>)
         ELSE ZipSetPadded((Head(args) :> Head(values)) @@ env, Tail(args), Tail(values))

\* The call environment: the callee's own Environment, with the called name
\* bound to the function object and then the parameters zipped with the values.
RECURSIVE ZipSet(_, _, _)
ZipSet(env, args, values) ==
    IF args = <<>> \/ values = <<>> THEN env
    ELSE ZipSet(EnvSet(env, Head(args), Head(values)), Tail(args), Tail(values))

\* A call environment without the binding of the called name.
CallEnvNoSelf(fnobj, name, values) == ZipSet(fnobj.env, fnobj.args, values)

\* A call environment that binds the parameters first and the called name
\* after them.
CallEnvParamsFirst(fnobj, name, values) ==
    EnvSet(ZipSet(fnobj.env, fnobj.args, values), name, fnobj)

CallEnv(fnobj, name, values) ==
    ZipSet(EnvSet(fnobj.env, name, fnobj), fnobj.args, values)

\* A return that leaves the bindings of the call in the function object the
\* caller holds under the called name.
CallerEnvKeepsActivation(caller, name, callenv) ==
    EnvSet(caller, name, [caller[name] EXCEPT !.env = callenv])

\* The Environment of the caller when the call returns: the body ran on the
\* Environment of a clone of the function object, which is dropped.
CallerEnv(caller, name, callenv) == caller

\* Eval(n, env, depth) is [val, env]: the object returned (or the Abort) and
\* the Environment as the call leaves it; depth is what is left of the stack.
RECURSIVE Eval(_, _, _)
RECURSIVE EvalAll(_, _, _, _)

\* An evaluation of seq that starts with its last node.
RECURSIVE EvalAllRightToLeft(_, _, _, _)
EvalAllRightToLeft(seq, env, depth, acc) ==
    IF seq = <<>> THEN [vals |-> acc, env |-> env, abort |-> NoObject]
    ELSE LET r == Eval(seq[Len(seq)], env, depth)
         IN IF IsAbort(r.val)
            THEN [vals |-> acc, env |-> r.env, abort |-> r.val]
            ELSE EvalAllRightToLeft(SubSeq(seq, 1, Len(seq) - 1), r.env, depth,
                                    <<r.val>> \o acc)

\* An evaluation of seq in a scope of its own: what the nodes bind is dropped.
RECURSIVE EvalAllOwnScope(_, _, _, _)
EvalAllOwnScope(seq, env, depth, acc) ==
    IF seq = <<>> THEN [vals |-> acc, env |-> env, abort |-> NoObject]
    ELSE LET r == Eval(Head(seq), env, depth)
             rest == EvalAllOwnScope(Tail(seq), r.env, depth, Append(acc, r.val))
         IN IF IsAbort(r.val)
            THEN [vals |-> acc, env |-> env, abort |-> r.val]
            ELSE [vals |-> rest.vals, env |-> env, abort |-> rest.abort]

\* An evaluation of seq that stops after a Return node.
RECURSIVE EvalAllStopAtReturn(_, _, _, _)
EvalAllStopAtReturn(seq, env, depth, acc) ==
    IF seq = <<>> THEN [vals |-> acc, env |-> env, abort |-> NoObject]
    ELSE LET r == Eval(Head(seq), env, depth)
         IN IF IsAbort(r.val)
            THEN [vals |-> acc, env |-> r.env, abort |-> r.val]
            ELSE IF Head(seq).kind = "Return"
                 THEN [vals |-> Append(acc, r.val), env |-> r.env, abort |-> NoObject]
                 ELSE EvalAllStopAtReturn(Tail(seq), r.env, depth, Append(acc, r.val))

\* The objects of the nodes of seq, evaluated in order against one
\* Environment; stops at the first Abort.
EvalAll(seq, env, depth, acc) ==
    IF seq = <<>> THEN [vals |-> acc, env |-> env, abort |-> NoObject]
    ELSE LET r == Eval(Head(seq), env, depth)
         IN IF IsAbort(r.val)
            THEN [vals |-> acc, env |-> r.env, abort |-> r.val]
            ELSE EvalAll(Tail(seq), r.env, depth, Append(acc, r.val))

Eval(n, env, depth) ==
    CASE n.kind = "Int" -> [val |-> Integer(n.i), env |-> env]
      [] n.kind = "Bool" -> [val |-> Bool(n.b), env |-> env]
      [] n.kind \in BinaryKinds ->
            LET l == Eval(n.lhs, env, depth)
            IN IF IsAbort(l.val) THEN l
               ELSE LET r == Eval(n.rhs, l.env, depth)
                    IN IF IsAbort(r.val) THEN r
                       ELSE [val |-> EvalBinary(n.kind, l.val, r.val), env |-> r.env]
      [] n.kind = "If" ->
            LET c == Eval(n.cond, env, depth)
            IN IF IsAbort(c.val) THEN c
               ELSE IF TakesElse(c.val)
                    THEN IF n.else_stmt # <<>>
                         THEN Eval(n.else_stmt[1], c.env, depth)
                         ELSE [val |-> Null, env |-> c.env]
                    ELSE Eval(n.stmt, c.env, depth)
      [] n.kind = "Return" -> Eval(n.expr, env, depth)
      [] n.kind = "Compound" ->
            LET r == EvalAll(n.stmts, env, depth, <<>>)
            IN IF IsAbort(r.abort) THEN [val |-> r.abort, env |-> r.env]
               ELSE [val |-> LastObject(r.vals), env |-> r.env]
      [] n.kind = "Let" ->
            LET r == Eval(n.expr, env, depth)
            IN IF IsAbort(r.val) THEN r
               ELSE [val |-> r.val, env |-> EnvSet(r.env, n.name, r.val)]
      [] n.kind = "Ident" -> [val |-> EnvGet(env, n.s), env |-> env]
      [] n.kind = "FnDef" -> [val |-> ObjectFunc(n.args, n.stmts), env |-> env]
      [] n.kind = "FnCall" ->
            LET a == EvalAll(n.args, env, depth, <<>>)
            IN IF IsAbort(a.abort) THEN [val |-> a.abort, env |-> a.env]
               ELSE LET fnobj == EnvGet(a.env, n.name)
                    IN IF IsAbort(fnobj) THEN [val |-> fnobj, env |-> a.env]
                       ELSE IF fnobj.type # "FnDef"
                            THEN [val |-> Panic("you tried to call undefined function."),
                                  env |-> a.env]
                       ELSE IF depth = 0 THEN [val |-> StackOverflow, env |-> a.env]
                       ELSE LET b == EvalAll(fnobj.stmts,
                                             CallEnv(fnobj, n.name, a.vals),
                                             depth - 1, <<>>)
                            IN IF IsAbort(b.abort) THEN [val |-> b.abort, env |-> a.env]
                               ELSE [val |-> LastObject(b.vals),
                                     env |-> CallerEnv(a.env, n.name, b.env)]
      [] OTHER -> [val |-> Panic("not implemented"), env |-> env]

(***************************************************************************)
(* The nodes the session evaluates.                                        *)
(***************************************************************************)
ArithInts == {I32Min, -32768, -1, 0, 2, 65536, I32Max}

\* fn() { y }
FnReadY == FnLit(<<>>, <<Ident("y")>>)
\* fn() { f }
FnSelf == FnLit(<<>>, <<Ident("f")>>)
\* fn(n) { if n { f(n + -1) } else { f } }
FnCount ==
    FnLit(<<"n">>, <<If(Ident("n"),
                        FnCall("f", <<Add(Ident("n"), IntLit(-1))>>),
                        Ident("f"))>>)
\* fn(x) { return 1 + x; }
FnParamX == FnLit(<<"x">>, <<Return(Add(IntLit(1), Ident("x")))>>)
\* fn() { return 1; }
FnOne == FnLit(<<>>, <<Return(IntLit(1))>>)
\* fn(f, x) { f(f(x)) }
FnTwice == FnLit(<<"f", "x">>, <<FnCall("f", <<FnCall("f", <<Ident("x")>>)>>)>>)

\* The one-parameter functions handed to twice.
GFuncs ==
    { FnLit(<<"a">>, <<Return(Add(Ident("a"), IntLit(1)))>>),
      FnLit(<<"a">>, <<Multi(Ident("a"), IntLit(2))>>),
      FnLit(<<"x">>, <<Add(Ident("x"), Ident("x"))>>),
      FnLit(<<"f">>, <<Add(Ident("f"), IntLit(1))>>),
      FnLit(<<"a">>, <<IfNoElse(Ident("a"), IntLit(7))>>),
      FnLit(<<"a">>, <<LT(Ident("a"), IntLit(1))>>) }

\* A node that evaluates to Null.
NullNode == IfNoElse(BoolLit(FALSE), IntLit(0))

LetNodes ==
    { Let(n, e) : n \in {"x", "y"},
                  e \in {IntLit(2), IntLit(5), Add(Ident("x"), IntLit(1)),
                         Let("y", IntLit(7)), BoolLit(TRUE)} }
    \cup { Let("f", fn) : fn \in {FnReadY, FnSelf, FnCount} }
    \cup { Let("x", FnOne), Let("x", FnParamX), Let("twice", FnTwice),
           Let("g", Ident("f")), Let("y", Ident("z")) }

BindExprs == {IntLit(0), IntLit(2), BoolLit(TRUE), FnOne}

OperandNodes ==
    { IntLit(1), BoolLit(TRUE), NullNode, FnOne, Ident("x"), Ident("z") }

CondNodes ==
    { BoolLit(TRUE), BoolLit(FALSE), IntLit(0), IntLit(1), IntLit(-1), NullNode,
      Add(IntLit(1), IntLit(-1)), FnOne, Ident("x"), Let("y", IntLit(0)) }

BranchNodes ==
    { IntLit(0), IntLit(2), Let("x", IntLit(9)),
      If(BoolLit(FALSE), IntLit(10), IntLit(20)) }

CallNodes ==
    { FnCall(n, a) : n \in {"x", "f", "g", "y"},
                     a \in {<<>>, <<IntLit(1)>>, <<IntLit(3)>>, <<Ident("y")>>} }
    \cup { FnCall("twice", <<g, IntLit(v)>>) : g \in GFuncs, v \in {0, 1, 5} }

\* fn(a, b) { a }
FnFirst == FnLit(<<"a", "b">>, <<Ident("a")>>)
\* fn(a, b) { b }
FnSecond == FnLit(<<"a", "b">>, <<Ident("b")>>)
\* fn() { }
FnEmpty == FnLit(<<>>, <<>>)
\* fn() { let x = 2; }
FnSetX == FnLit(<<>>, <<Let("x", IntLit(2))>>)
\* fn() { x }
FnGetX == FnLit(<<>>, <<Ident("x")>>)
\* fn() { return 1; 2 }
FnReturnFirst == FnLit(<<>>, <<Return(IntLit(1)), IntLit(2)>>)
\* fn(a) { { let b = a; } b }
FnBlock == FnLit(<<"a">>, <<Compound(<<Let("b", Ident("a"))>>), Ident("b")>>)

\* fn(a) { if a { let t = 1 } else { t } }
FnLeak == FnLit(<<"a">>, <<If(Ident("a"), Let("t", IntLit(1)), Ident("t"))>>)

\* Bindings, calls and lookups around functions that bind names in their body.
ActivationNodes ==
    LET \* fn(t) { let t = t + 1; t }
        FnBump == FnLit(<<"t">>, <<Let("t", Add(Ident("t"), IntLit(1))), Ident("t")>>)
    IN { Let("f", FnLeak), Let("g", FnBump), Let("t", IntLit(5)),
         FnCall("f", <<BoolLit(TRUE)>>), FnCall("f", <<BoolLit(FALSE)>>),
         FnCall("f", <<Let("a", IntLit(3))>>),
         FnCall("g", <<IntLit(1)>>), FnCall("g", <<Ident("t")>>),
         Compound(<<FnCall("f", <<BoolLit(TRUE)>>), FnCall("f", <<BoolLit(FALSE)>>)>>),
         Compound(<<FnCall("g", <<IntLit(1)>>), Ident("t")>>),
         Ident("t"), Ident("a"), Ident("f") }

\* Bindings of the functions and values the calls below go through.
DefineNodes ==
    { Let("f", fn) : fn \in {FnFirst, FnSecond, FnOne} }
    \cup { Let("set", FnSetX), Let("get", FnGetX) }
    \cup { Let("x", e) : e \in {IntLit(1), BoolLit(TRUE), NullNode} }
    \cup { Let("y", IntLit(5)) }

\* Calls of f with zero to three arguments.
ArityNodes ==
    { FnCall("f", a) :
        a \in { <<>>,
                <<IntLit(7)>>,
                <<IntLit(7), IntLit(8)>>,
                <<IntLit(7), IntLit(8), IntLit(9)>>,
                <<IntLit(7), Let("y", IntLit(9))>>,
                <<IntLit(7), IntLit(8), Let("y", IntLit(9))>>,
                <<IntLit(7), IntLit(8), Ident("z")>> } }

\* Calls whose arguments bind names.
ArgNodes ==
    { FnCall("f", <<Let("f", FnOne)>>),
      FnCall("f", <<Let("f", FnSecond), IntLit(8)>>),
      FnCall("f", <<Let("f", IntLit(0))>>),
      FnCall("f", <<Let("y", IntLit(1)), Ident("y")>>),
      FnCall("f", <<Ident("y"), Let("y", IntLit(1))>>),
      FnCall("x", <<Let("x", FnOne)>>) }

\* Calls through names that may be bound to anything, or to nothing.
CalleeNodes ==
    { FnCall(n, a) : n \in {"x", "y", "z", "f"},
                     a \in {<<>>, <<IntLit(1)>>, <<Let("y", IntLit(5))>>} }

\* Calls of two functions defined in the same scope.
SharedNodes ==
    { FnCall("set", <<>>),
      FnCall("get", <<>>),
      Compound(<<FnCall("set", <<>>), FnCall("get", <<>>)>>) }

\* Blocks.
BlockNodes ==
    { Compound(<<>>),
      Compound(<<IntLit(1)>>),
      Compound(<<Ident("x")>>),
      Compound(<<Let("y", IntLit(5))>>),
      Compound(<<Let("x", IntLit(2)), Add(Ident("x"), IntLit(1))>>),
      Compound(<<Let("x", IntLit(1)), Let("x", IntLit(2)), Ident("x")>>),
      Compound(<<Compound(<<Let("y", IntLit(7))>>), Ident("y")>>),
      Compound(<<Ident("z"), Let("x", IntLit(3))>>),
      Compound(<<Let("y", IntLit(3)), Ident("z")>>),
      Compound(<<IntLit(1), Compound(<<>>)>>),
      Compound(<<Return(IntLit(1)), IntLit(2)>>),
      Compound(<<Return(Let("y", IntLit(3))), Ident("y")>>),
      Compound(<<IfNoElse(BoolLit(TRUE), Return(IntLit(1))), Ident("x")>>) }

\* The expressions wrapped in a Return.
ReturnExprs ==
    { IntLit(1), BoolLit(TRUE), NullNode, FnOne, Ident("x"), Ident("z"),
      Let("y", IntLit(3)), Add(Ident("x"), IntLit(1)), Return(IntLit(2)),
      Compound(<<Let("x", IntLit(4)), Ident("x")>>),
      Compound(<<>>) }

\* Bindings of functions whose bodies are looked at as blocks, and their calls.
BodyNodes ==
    { Let("f", fn) : fn \in {FnEmpty, FnReturnFirst, FnBlock, FnOne} }
    \cup { FnCall("f", a) : a \in {<<>>, <<IntLit(6)>>} }

(***************************************************************************)
(* The session: Evaluator::new, then calls of eval against global_env.     *)
(***************************************************************************)
ParserIdle ==
    /\ tokens = <<>>
    /\ index = 0
    /\ presult = <<>>
    /\ pcall = "new"
    /\ pfrom = 0
    /\ pret = NoNode

Init ==
    /\ global_env = EnvironmentNew
    /\ overflow_checks \in BOOLEAN
    /\ node = NoNode
    /\ result = NoObject
    /\ env_before = EnvironmentNew
    /\ steps = 0
    /\ ParserIdle
    /\ LexerIdle
    /\ ReplIdle

\* The session goes on: another node may be evaluated.
CanEval ==
    /\ steps < MaxSteps
    /\ ~IsAbort(result)

\* ev.eval(n, &ev.global_env)
Step(n) ==
    /\ LET r == Eval(n, global_env, MaxDepth)
       IN /\ global_env' = r.env
          /\ result' = r.val
    /\ node' = n
    /\ env_before' = global_env
    /\ steps' = steps + 1
    /\ UNCHANGED <<overflow_checks, tokens, index, presult, pcall, pfrom, pret>>
    /\ UNCHANGED <<lvars, rvars>>

EvalArith ==
    \E k \in BinaryKinds : \E a \in ArithInts : \E b \in ArithInts :
        /\ CanEval
        /\ Step([kind |-> k, lhs |-> IntLit(a), rhs |-> IntLit(b)])

EvalOperands ==
    \E k \in BinaryKinds : \E l \in OperandNodes : \E r \in OperandNodes :
        /\ CanEval
        /\ Step([kind |-> k, lhs |-> l, rhs |-> r])

EvalIf ==
    \E c \in CondNodes : \E s \in BranchNodes :
        \E e \in {<<>>} \cup { <<b>> : b \in BranchNodes } :
            /\ CanEval
            /\ Step([kind |-> "If", cond |-> c, stmt |-> s, else_stmt |-> e])

EvalLet ==
    \E n \in LetNodes :
        /\ CanEval
        /\ Step(n)

EvalBind ==
    \E e \in BindExprs :
        /\ CanEval
        /\ Step(Let("x", e))

EvalIdent ==
    \E s \in {"x", "y", "f", "z"} :
        /\ CanEval
        /\ Step(Ident(s))

EvalCall ==
    \E n \in CallNodes :
        /\ CanEval
        /\ Step(n)

EvalActivation ==
    \E n \in ActivationNodes :
        /\ CanEval
        /\ Step(n)

\* A session of calls of functions that bind names in their body.
SpecActivation == Init /\ [][EvalActivation]_vars

\* A session of bindings, lookups and calls.
Next ==
    \/ EvalLet
    \/ EvalIdent
    \/ EvalCall

Spec == Init /\ [][Next]_vars

\* A session of binary operations.
NextArith ==
    \/ EvalArith
    \/ EvalOperands
    \/ EvalBind
    \/ EvalIdent

SpecArith == Init /\ [][NextArith]_vars

\* A session of conditionals.
NextIf ==
    \/ EvalIf
    \/ EvalBind

SpecIf == Init /\ [][NextIf]_vars

EvalDefine ==
    \E n \in DefineNodes :
        /\ CanEval
        /\ Step(n)

EvalArity ==
    \E n \in ArityNodes :
        /\ CanEval
        /\ Step(n)

EvalArgs ==
    \E n \in ArgNodes :
        /\ CanEval
        /\ Step(n)

EvalCallee ==
    \E n \in CalleeNodes :
        /\ CanEval
        /\ Step(n)

EvalShared ==
    \E n \in SharedNodes :
        /\ CanEval
        /\ Step(n)

\* A session of definitions and calls.
NextCall ==
    \/ EvalDefine
    \/ EvalArity
    \/ EvalArgs
    \/ EvalCallee
    \/ EvalShared

SpecCall == Init /\ [][NextCall]_vars

EvalBlock ==
    \E n \in BlockNodes :
        /\ CanEval
        /\ Step(n)

EvalReturn ==
    \E e \in ReturnExprs :
        /\ CanEval
        /\ Step(Return(e))

EvalBody ==
    \E n \in BodyNodes :
        /\ CanEval
        /\ Step(n)

\* A session of blocks, returns and calls of block bodies.
NextBlock ==
    \/ EvalBlock
    \/ EvalReturn
    \/ EvalBody
    \/ EvalBind

SpecBlock == Init /\ [][NextBlock]_vars

(***************************************************************************)
(* Token (token.rs)                                                        *)
(***************************************************************************)
TInt(i) == [t |-> "Int", i |-> i]
TIdent(s) == [t |-> "Ident", s |-> s]
Tok(name) == [t |-> name]
NoToken == [t |-> "None"]

(***************************************************************************)
(* Parser (ast.rs).  A method is an operator of the token slice and the    *)
(* index it starts from; it gives [ast, idx]: the node returned (or the    *)
(* panic) and the index it leaves.                                         *)
(***************************************************************************)
PLet(name, value) == [kind |-> "Let", name |-> name, value |-> value]
PPanic(msg) == [kind |-> "Panic", msg |-> msg]
IsPanic(a) == a.kind = "Panic"

\* self.tokens.get(i)
TokenAt(ts, i) == IF i < Len(ts) THEN ts[i + 1] ELSE NoToken

\* Parser::peek
PeekAt(ts, i) == TokenAt(ts, i)

\* A get that moves the index whether or not a token remains.
GetIndexPastEnd(ts, i) == i + 1

\* Parser::get: the index after the call
GetIndex(ts, i) == IF i < Len(ts) THEN i + 1 ELSE i

\* Parser::token_to_ast
TokenToAst(t) ==
    CASE t.t = "Int" -> IntLit(t.i)
      [] t.t = "Ident" -> Ident(t.s)
      [] OTHER -> PPanic("not implemented")

\* Parser::primary
PPrimary(ts, i) ==
    Then(TokenAt(ts, i), LAMBDA t :
        IF t.t \in {"Int", "Ident"}
        THEN [ast |-> TokenToAst(t), idx |-> GetIndex(ts, i)]
        ELSE IF t.t = "None"
             THEN [ast |-> PPanic("try to parse primary but got None"), idx |-> i]
             ELSE [ast |-> PPanic("unexpected token"), idx |-> GetIndex(ts, i)])

\* The loop of Parser::multiplicative, entered with left parsed up to i.
RECURSIVE MultiplicativeLoop(_, _, _)
MultiplicativeLoop(ts, i, left) ==
    IF PeekAt(ts, i) # Tok("Star") THEN [ast |-> left, idx |-> i]
    ELSE Then(PPrimary(ts, GetIndex(ts, i)), LAMBDA right :
            IF IsPanic(right.ast) THEN right
            ELSE MultiplicativeLoop(ts, right.idx, Multi(left, right.ast)))

\* Parser::multiplicative
PMultiplicative(ts, i) ==
    Then(PPrimary(ts, i), LAMBDA left :
        IF IsPanic(left.ast) THEN left
        ELSE MultiplicativeLoop(ts, left.idx, left.ast))

\* An additive loop whose right operand is a primary.
RECURSIVE AdditiveLoopPrimary(_, _, _)
AdditiveLoopPrimary(ts, i, left) ==
    IF PeekAt(ts, i) # Tok("Plus") THEN [ast |-> left, idx |-> i]
    ELSE Then(PPrimary(ts, GetIndex(ts, i)), LAMBDA right :
            IF IsPanic(right.ast) THEN right
            ELSE AdditiveLoopPrimary(ts, right.idx, Add(left, right.ast)))

\* An additive loop that builds its node with the operands exchanged.
RECURSIVE AdditiveLoopSwapped(_, _, _)
AdditiveLoopSwapped(ts, i, left) ==
    IF PeekAt(ts, i) # Tok("Plus") THEN [ast |-> left, idx |-> i]
    ELSE Then(PMultiplicative(ts, GetIndex(ts, i)), LAMBDA right :
            IF IsPanic(right.ast) THEN right
            ELSE AdditiveLoopSwapped(ts, right.idx, Add(right.ast, left)))

\* The loop of Parser::additive, entered with left parsed up to i.
RECURSIVE AdditiveLoop(_, _, _)
AdditiveLoop(ts, i, left) ==
    IF PeekAt(ts, i) # Tok("Plus") THEN [ast |-> left, idx |-> i]
    ELSE Then(PMultiplicative(ts, GetIndex(ts, i)), LAMBDA right :
            IF IsPanic(right.ast) THEN right
            ELSE AdditiveLoop(ts, right.idx, Add(left, right.ast)))

\* Parser::additive
PAdditive(ts, i) ==
    Then(PMultiplicative(ts, i), LAMBDA left :
        IF IsPanic(left.ast) THEN left
        ELSE AdditiveLoop(ts, left.idx, left.ast))

\* Parser::expression
PExpression(ts, i) == PAdditive(ts, i)

\* assert_eq!(self.get(), Some(want)): the index moves even when it fails.
AssertGet(ts, i, want) ==
    IF TokenAt(ts, i) = Tok(want)
    THEN [ast |-> NoNode, idx |-> GetIndex(ts, i)]
    ELSE [ast |-> PPanic("assertion failed"), idx |-> GetIndex(ts, i)]

\* An expression statement whose semicolon may be left out.
PExpressionStatementLax(ts, i) ==
    Then(PExpression(ts, i), LAMBDA e :
        IF IsPanic(e.ast) THEN e
        ELSE IF TokenAt(ts, e.idx) = Tok("Semicolon")
             THEN [ast |-> e.ast, idx |-> GetIndex(ts, e.idx)]
             ELSE e)

\* Parser::expression_statement
PExpressionStatement(ts, i) ==
    Then(PExpression(ts, i), LAMBDA e :
        IF IsPanic(e.ast) THEN e
        ELSE Then(AssertGet(ts, e.idx, "Semicolon"), LAMBDA semi :
                IF IsPanic(semi.ast) THEN semi
                ELSE [ast |-> e.ast, idx |-> semi.idx]))

\* Parser::return_stmt
PReturnStmt(ts, i) ==
    Then(AssertGet(ts, i, "Return"), LAMBDA kw :
        IF IsPanic(kw.ast) THEN kw
        ELSE Then(PExpressionStatement(ts, kw.idx), LAMBDA e :
                IF IsPanic(e.ast) THEN e
                ELSE [ast |-> Return(e.ast), idx |-> e.idx]))

\* let_stmt from the name on: token_to_ast(self.get().unwrap()), `=`,
\* the expression and `;`.
LetStmtName(ts, i) ==
    IF TokenAt(ts, i) = NoToken THEN [ast |-> PPanic("unwrap on None"), idx |-> i]
    ELSE Then(TokenToAst(TokenAt(ts, i)), LAMBDA name :
            IF IsPanic(name) THEN [ast |-> name, idx |-> GetIndex(ts, i)]
            ELSE Then(AssertGet(ts, GetIndex(ts, i), "Assign"), LAMBDA eq :
                    IF IsPanic(eq.ast) THEN eq
                    ELSE Then(PExpression(ts, eq.idx), LAMBDA value :
                            IF IsPanic(value.ast) THEN value
                            ELSE Then(AssertGet(ts, value.idx, "Semicolon"), LAMBDA semi :
                                    IF IsPanic(semi.ast) THEN semi
                                    ELSE [ast |-> PLet(name, value.ast),
                                          idx |-> semi.idx]))))

\* Parser::let_stmt
PLetStmt(ts, i) ==
    Then(AssertGet(ts, i, "Let"), LAMBDA kw :
        IF IsPanic(kw.ast) THEN kw ELSE LetStmtName(ts, kw.idx))

RECURSIVE PStatement(_, _)
RECURSIVE CompoundLoop(_, _, _)

\* The loop of Parser::compound_statement, with stmts parsed up to i.
CompoundLoop(ts, i, stmts) ==
    IF PeekAt(ts, i) = Tok("RBrace")
    THEN [ast |-> Compound(stmts), idx |-> GetIndex(ts, i)]
    ELSE Then(PStatement(ts, i), LAMBDA st :
            IF IsPanic(st.ast) THEN st
            ELSE CompoundLoop(ts, st.idx, Append(stmts, st.ast)))

\* Parser::compound_statement
PCompoundStatement(ts, i) == CompoundLoop(ts, GetIndex(ts, i), <<>>)

\* An optional else that takes the token after the consequence in either case.
IfStmtElseSkips(ts, cond, stmt) ==
    IF PeekAt(ts, stmt.idx) = Tok("Else")
    THEN Then(PStatement(ts, GetIndex(ts, stmt.idx)), LAMBDA els :
            IF IsPanic(els.ast) THEN els
            ELSE [ast |-> If(cond.ast, stmt.ast, els.ast), idx |-> els.idx])
    ELSE [ast |-> IfNoElse(cond.ast, stmt.ast), idx |-> GetIndex(ts, stmt.idx)]

\* if_stmt after the consequence: the optional else.
IfStmtElse(ts, cond, stmt) ==
    IF PeekAt(ts, stmt.idx) = Tok("Else")
    THEN Then(PStatement(ts, GetIndex(ts, stmt.idx)), LAMBDA els :
            IF IsPanic(els.ast) THEN els
            ELSE [ast |-> If(cond.ast, stmt.ast, els.ast), idx |-> els.idx])
    ELSE [ast |-> IfNoElse(cond.ast, stmt.ast), idx |-> stmt.idx]

\* Parser::if_stmt
PIfStmt(ts, i) ==
    Then(PExpression(ts, GetIndex(ts, i)), LAMBDA cond :
        IF IsPanic(cond.ast) THEN cond
        ELSE Then(PStatement(ts, cond.idx), LAMBDA stmt :
                IF IsPanic(stmt.ast) THEN stmt
                ELSE IfStmtElse(ts, cond, stmt)))

\* Parser::statement
PStatement(ts, i) ==
    Then(PeekAt(ts, i), LAMBDA t :
        CASE t.t = "Let" -> PLetStmt(ts, i)
          [] t.t = "Return" -> PReturnStmt(ts, i)
          [] t.t = "LBrace" -> PCompoundStatement(ts, i)
          [] t.t = "If" -> PIfStmt(ts, i)
          [] t.t = "None" ->
                [ast |-> PPanic("try to parse statement but got None"), idx |-> i]
          [] OTHER -> PExpressionStatement(ts, i))

\* Parser::parse: [ast, idx, res], res being self.result as the call leaves it.
RECURSIVE ParseLoop(_, _, _)
ParseLoop(ts, i, res) ==
    IF PeekAt(ts, i) = Tok("EOF") THEN [ast |-> NoNode, idx |-> i, res |-> res]
    ELSE Then(PStatement(ts, i), LAMBDA st :
            IF IsPanic(st.ast) THEN [ast |-> st.ast, idx |-> st.idx, res |-> res]
            ELSE ParseLoop(ts, st.idx, Append(res, st.ast)))

(***************************************************************************)
(* The token slices handed to Parser::new.                                 *)
(***************************************************************************)
Operands == {TInt(1), TInt(2), TIdent("x")}
Operators == {Tok("Plus"), Tok("Star")}

\* n operands joined by operators.
RECURSIVE ChainsOf(_)
ChainsOf(n) ==
    IF n = 1 THEN { <<a>> : a \in Operands }
    ELSE { c \o <<op, a>> : c \in ChainsOf(n - 1), op \in Operators, a \in Operands }

ChainSeqs == { c \o <<Tok("EOF")>> : c \in UNION { ChainsOf(n) : n \in 1..MaxTerms } }

StatementSeqs ==
    { \* let x = 10;
      <<Tok("Let"), TIdent("x"), Tok("Assign"), TInt(10), Tok("Semicolon"), Tok("EOF")>>,
      \* let 5 = 3;
      <<Tok("Let"), TInt(5), Tok("Assign"), TInt(3), Tok("Semicolon"), Tok("EOF")>>,
      \* return x + 1;
      <<Tok("Return"), TIdent("x"), Tok("Plus"), TInt(1), Tok("Semicolon")>>,
      \* 1 + 2; 3 * 4;
      <<TInt(1), Tok("Plus"), TInt(2), Tok("Semicolon"),
        TInt(3), Tok("Star"), TInt(4), Tok("Semicolon"), Tok("EOF")>>,
      \* { 1 + 2; 3 * 4; }
      <<Tok("LBrace"), TInt(1), Tok("Plus"), TInt(2), Tok("Semicolon"),
        TInt(3), Tok("Star"), TInt(4), Tok("Semicolon"), Tok("RBrace"), Tok("EOF")>>,
      \* if 1 return 10; else return 20; }
      <<Tok("If"), TInt(1), Tok("Return"), TInt(10), Tok("Semicolon"),
        Tok("Else"), Tok("Return"), TInt(20), Tok("Semicolon"), Tok("RBrace")>>,
      \* if 1 { 1; 2; }
      <<Tok("If"), TInt(1), Tok("LBrace"), TInt(1), Tok("Semicolon"),
        TInt(2), Tok("Semicolon"), Tok("RBrace")>> }

TokenSeqs == ChainSeqs \cup StatementSeqs

(***************************************************************************)
(* The parser: Parser::new(tokens), then calls of its methods.             *)
(***************************************************************************)
EvaluatorIdle ==
    /\ global_env = EnvironmentNew
    /\ overflow_checks = TRUE
    /\ node = NoNode
    /\ result = NoObject
    /\ env_before = EnvironmentNew
    /\ steps = 0

InitParser ==
    /\ EvaluatorIdle
    /\ LexerIdle
    /\ ReplIdle
    /\ tokens \in TokenSeqs
    /\ index = 0
    /\ presult = <<>>
    /\ pcall = "new"
    /\ pfrom = 0
    /\ pret = NoNode

TokenRet(t) == [kind |-> "Token", tok |-> t]

\* A method that returns a node: r is what the method's operator gives.
PCall(name, r) ==
    /\ ~IsPanic(pret)
    /\ pcall' = name
    /\ pfrom' = index
    /\ index' = r.idx
    /\ pret' = r.ast
    /\ UNCHANGED <<tokens, presult, evars, lvars, rvars>>

Peek ==
    /\ ~IsPanic(pret)
    /\ pcall' = "peek"
    /\ pfrom' = index
    /\ pret' = TokenRet(PeekAt(tokens, index))
    /\ UNCHANGED <<tokens, index, presult, evars, lvars, rvars>>

Get ==
    /\ ~IsPanic(pret)
    /\ pcall' = "get"
    /\ pfrom' = index
    /\ pret' = TokenRet(TokenAt(tokens, index))
    /\ index' = GetIndex(tokens, index)
    /\ UNCHANGED <<tokens, presult, evars, lvars, rvars>>

Primary == PCall("primary", PPrimary(tokens, index))

Multiplicative == PCall("multiplicative", PMultiplicative(tokens, index))

Additive == PCall("additive", PAdditive(tokens, index))

ExpressionStatement == PCall("expression_statement", PExpressionStatement(tokens, index))

ReturnStmt == PCall("return_stmt", PReturnStmt(tokens, index))

LetStmt == PCall("let_stmt", PLetStmt(tokens, index))

CompoundStatement == PCall("compound_statement", PCompoundStatement(tokens, index))

IfStmt == PCall("if_stmt", PIfStmt(tokens, index))

Statement == PCall("statement", PStatement(tokens, index))

Parse ==
    /\ ~IsPanic(pret)
    /\ LET r == ParseLoop(tokens, index, presult)
       IN /\ index' = r.idx
          /\ pret' = r.ast
          /\ presult' = r.res
    /\ pcall' = "parse"
    /\ pfrom' = index
    /\ UNCHANGED <<tokens, evars, lvars, rvars>>

NextParser ==
    \/ Peek
    \/ Get
    \/ Primary
    \/ Multiplicative
    \/ Additive
    \/ ExpressionStatement
    \/ ReturnStmt
    \/ LetStmt
    \/ CompoundStatement
    \/ IfStmt
    \/ Statement
    \/ Parse

SpecParser == InitParser /\ [][NextParser]_vars

(***************************************************************************)
(* The parser over statements: the same methods over the token slices of   *)
(* let statements, if statements and whole programs.                       *)
(***************************************************************************)
\* Slices handed to let_stmt.
LetSeqs ==
    { \* let x = 10;
      <<Tok("Let"), TIdent("x"), Tok("Assign"), TInt(10), Tok("Semicolon"), Tok("EOF")>>,
      \* let x = 10 + 20;
      <<Tok("Let"), TIdent("x"), Tok("Assign"), TInt(10), Tok("Plus"), TInt(20),
        Tok("Semicolon"), Tok("EOF")>>,
      \* let 5 = 3;
      <<Tok("Let"), TInt(5), Tok("Assign"), TInt(3), Tok("Semicolon"), Tok("EOF")>>,
      \* let = 3;
      <<Tok("Let"), Tok("Assign"), TInt(3), Tok("Semicolon"), Tok("EOF")>>,
      \* let let = 3;
      <<Tok("Let"), Tok("Let"), Tok("Assign"), TInt(3), Tok("Semicolon"), Tok("EOF")>>,
      \* let x 3;
      <<Tok("Let"), TIdent("x"), TInt(3), Tok("Semicolon"), Tok("EOF")>>,
      \* let x = 3
      <<Tok("Let"), TIdent("x"), Tok("Assign"), TInt(3), Tok("EOF")>>,
      \* let x = 3, with no token after it
      <<Tok("Let"), TIdent("x"), Tok("Assign"), TInt(3)>>,
      \* let x = ;
      <<Tok("Let"), TIdent("x"), Tok("Assign"), Tok("Semicolon"), Tok("EOF")>>,
      \* let
      <<Tok("Let")>> }

\* The statements programs are made of.
StatementForms ==
    { \* 1 + 2;
      <<TInt(1), Tok("Plus"), TInt(2), Tok("Semicolon")>>,
      \* return x * 2;
      <<Tok("Return"), TIdent("x"), Tok("Star"), TInt(2), Tok("Semicolon")>>,
      \* let x = 10;
      <<Tok("Let"), TIdent("x"), Tok("Assign"), TInt(10), Tok("Semicolon")>>,
      \* { 1; x; }
      <<Tok("LBrace"), TInt(1), Tok("Semicolon"), TIdent("x"), Tok("Semicolon"),
        Tok("RBrace")>>,
      \* { }
      <<Tok("LBrace"), Tok("RBrace")>>,
      \* if 1 2;
      <<Tok("If"), TInt(1), TInt(2), Tok("Semicolon")>>,
      \* if x return 1; else return 2;
      <<Tok("If"), TIdent("x"), Tok("Return"), TInt(1), Tok("Semicolon"),
        Tok("Else"), Tok("Return"), TInt(2), Tok("Semicolon")>> }

\* The programs of n statements, each a sequence of statement forms.
RECURSIVE ProgramsOf(_)
ProgramsOf(n) ==
    IF n = 0 THEN { <<>> }
    ELSE { p \o <<f>> : p \in ProgramsOf(n - 1), f \in StatementForms }

Programs == UNION { ProgramsOf(n) : n \in 0..MaxStmts }

\* The tokens of a program, without the EOF.
RECURSIVE ProgramTokens(_)
ProgramTokens(p) ==
    IF p = <<>> THEN <<>> ELSE Head(p) \o ProgramTokens(Tail(p))

ProgramSeqs == { ProgramTokens(p) \o <<Tok("EOF")>> : p \in Programs }

\* Programs with an expression or return statement that has no semicolon.
UnterminatedSeqs ==
    { \* 1 + 2
      <<TInt(1), Tok("Plus"), TInt(2), Tok("EOF")>>,
      \* return 1
      <<Tok("Return"), TInt(1), Tok("EOF")>>,
      \* 1 + 2; x
      <<TInt(1), Tok("Plus"), TInt(2), Tok("Semicolon"), TIdent("x"), Tok("EOF")>>,
      \* 1 2;
      <<TInt(1), TInt(2), Tok("Semicolon"), Tok("EOF")>>,
      \* let x = 1; return x
      <<Tok("Let"), TIdent("x"), Tok("Assign"), TInt(1), Tok("Semicolon"),
        Tok("Return"), TIdent("x"), Tok("EOF")>>,
      \* { 1 }
      <<Tok("LBrace"), TInt(1), Tok("RBrace"), Tok("EOF")>>,
      \* if 1 2
      <<Tok("If"), TInt(1), TInt(2), Tok("EOF")>> }

\* Slices handed to if_stmt.
IfSeqs ==
    { \* if 1 return 10;
      <<Tok("If"), TInt(1), Tok("Return"), TInt(10), Tok("Semicolon")>>,
      \* if 1 { 1; 2; }
      <<Tok("If"), TInt(1), Tok("LBrace"), TInt(1), Tok("Semicolon"),
        TInt(2), Tok("Semicolon"), Tok("RBrace")>>,
      \* if 1 return 10; else return 20; }
      <<Tok("If"), TInt(1), Tok("Return"), TInt(10), Tok("Semicolon"),
        Tok("Else"), Tok("Return"), TInt(20), Tok("Semicolon"), Tok("RBrace")>>,
      \* if 1 2; 3;
      <<Tok("If"), TInt(1), TInt(2), Tok("Semicolon"), TInt(3), Tok("Semicolon"),
        Tok("EOF")>>,
      \* if a if b 1; else 2;
      <<Tok("If"), TIdent("a"), Tok("If"), TIdent("b"), TInt(1), Tok("Semicolon"),
        Tok("Else"), TInt(2), Tok("Semicolon"), Tok("EOF")>>,
      \* if a if b 1; else 2; else 3;
      <<Tok("If"), TIdent("a"), Tok("If"), TIdent("b"), TInt(1), Tok("Semicolon"),
        Tok("Else"), TInt(2), Tok("Semicolon"), Tok("Else"), TInt(3), Tok("Semicolon"),
        Tok("EOF")>>,
      \* if a { if b 1; } else 2;
      <<Tok("If"), TIdent("a"), Tok("LBrace"), Tok("If"), TIdent("b"), TInt(1),
        Tok("Semicolon"), Tok("RBrace"), Tok("Else"), TInt(2), Tok("Semicolon"),
        Tok("EOF")>>,
      \* if 1 2; else
      <<Tok("If"), TInt(1), TInt(2), Tok("Semicolon"), Tok("Else")>>,
      \* if 1 + 2 * 3 x; else y;
      <<Tok("If"), TInt(1), Tok("Plus"), TInt(2), Tok("Star"), TInt(3), TIdent("x"),
        Tok("Semicolon"), Tok("Else"), TIdent("y"), Tok("Semicolon"), Tok("EOF")>> }

InitStatements ==
    /\ EvaluatorIdle
    /\ LexerIdle
    /\ ReplIdle
    /\ tokens \in LetSeqs \cup ProgramSeqs \cup UnterminatedSeqs \cup IfSeqs
    /\ index = 0
    /\ presult = <<>>
    /\ pcall = "new"
    /\ pfrom = 0
    /\ pret = NoNode

SpecStatements == InitStatements /\ [][NextParser]_vars

\* Every token slice of up to MaxTokens tokens, with and without a final EOF,
\* with and without the `}` of a `{`, together with the slices above.
CursorSeqs ==
    LET kinds == { TInt(1), Tok("Plus"), Tok("Semicolon"), Tok("LBrace"), Tok("RBrace"),
                   Tok("If"), Tok("Else"), Tok("Return"), Tok("EOF") }
    IN UNION { [1..n -> kinds] : n \in 0..MaxTokens }
       \cup StatementSeqs \cup LetSeqs \cup UnterminatedSeqs \cup IfSeqs

InitCursor ==
    /\ EvaluatorIdle
    /\ LexerIdle
    /\ ReplIdle
    /\ tokens \in CursorSeqs
    /\ index = 0
    /\ presult = <<>>
    /\ pcall = "new"
    /\ pfrom = 0
    /\ pret = NoNode

SpecCursor == InitCursor /\ [][NextParser]_vars

(***************************************************************************)
(* The lexer (lexer.rs).  A source is the sequence of its characters, a    *)
(* character a string of length one and "" the None of chars().nth.  A     *)
(* Lexer is [position, read_position, ch]; an identifier carries its       *)
(* characters.                                                             *)
(***************************************************************************)
\* Lexer::new
LexerNew(s) ==
    [position |-> 0, read_position |-> 1, ch |-> IF 0 < Len(s) THEN s[1] ELSE ""]

\* Lexer::read_char
ReadChar(s, L) ==
    [ch |-> IF L.position < Len(s) THEN s[L.position + 1] ELSE "",
     position |-> L.read_position,
     read_position |-> L.read_position + 1]

\* Lexer::backtrack
Backtrack(L) ==
    [L EXCEPT !.read_position = L.read_position - 1,
              !.position = L.read_position - 2]

\* Lexer::peek_char
PeekChar(s, L) == IF L.position < Len(s) THEN s[L.position + 1] ELSE ""

\* Lexer::skip_whitespace
RECURSIVE SkipWhitespace(_, _)
SkipWhitespace(s, L) ==
    IF L.ch \in {"\t", " ", "\n", "\r"} THEN SkipWhitespace(s, ReadChar(s, L)) ELSE L

\* The two `while let` loops of next_token and the backtrack after them:
\* the characters of the class are pushed to the literal one by one.
RECURSIVE ReadWhile(_, _, _, _)
ReadWhile(s, L, class, literal) ==
    IF L.ch \in class
    THEN ReadWhile(s, ReadChar(s, L), class, Append(literal, L.ch))
    ELSE [lex |-> Backtrack(L), literal |-> literal]

\* token::lookup_keyword
LookupKeyword(literal) ==
    CASE literal = <<"l", "e", "t">> -> Tok("Let")
      [] literal = <<"f", "n">> -> Tok("Function")
      [] literal = <<"i", "f">> -> Tok("If")
      [] literal = <<"e", "l", "s", "e">> -> Tok("Else")
      [] literal = <<"w", "h", "i", "l", "e">> -> Tok("While")
      [] literal = <<"r", "e", "t", "u", "r", "n">> -> Tok("Return")
      [] literal = <<"t", "r", "u", "e">> -> Tok("True")
      [] literal = <<"f", "a", "l", "s", "e">> -> Tok("False")
      [] OTHER -> TIdent(literal)

\* Token::Int(literal.parse::<i32>().unwrap()): a literal above i32::MAX is
\* an Err, and the unwrap panics.
ParseI32(literal) ==
    LET digit == [c \in {"0", "1", "2", "3", "4", "5", "6", "7", "8", "9"} |->
                    CASE c = "0" -> 0 [] c = "1" -> 1 [] c = "2" -> 2 [] c = "3" -> 3
                      [] c = "4" -> 4 [] c = "5" -> 5 [] c = "6" -> 6 [] c = "7" -> 7
                      [] c = "8" -> 8 [] c = "9" -> 9]
        value[k \in 0..Len(literal)] ==
            IF k = 0 THEN 0
            ELSE IF value[k - 1] = -1 THEN -1
            ELSE IF value[k - 1] > (I32Max - digit[literal[k]]) \div 10 THEN -1
            ELSE value[k - 1] * 10 + digit[literal[k]]
    IN IF value[Len(literal)] = -1
       THEN [t |-> "Panic", msg |-> "called Result::unwrap() on an Err value"]
       ELSE TInt(value[Len(literal)])

\* Lexer::next_token: [tok, lex], the token returned (or the panic) and the
\* Lexer as the call leaves it.
LexNextToken(s, L0) ==
    LET letters == {"a", "b", "c", "d", "e", "f", "g", "h", "i", "j", "k", "l", "m",
                    "n", "o", "p", "q", "r", "s", "t", "u", "v", "w", "x", "y", "z",
                    "A", "B", "C", "D", "E", "F", "G", "H", "I", "J", "K", "L", "M",
                    "N", "O", "P", "Q", "R", "S", "T", "U", "V", "W", "X", "Y", "Z",
                    "_"}
        digits == {"0", "1", "2", "3", "4", "5", "6", "7", "8", "9"}
        L == SkipWhitespace(s, ReadChar(s, L0))
        one(name) == [tok |-> Tok(name), lex |-> L]
    IN CASE L.ch = "=" ->
                IF PeekChar(s, L) = "="
                THEN [tok |-> Tok("Eq"), lex |-> ReadChar(s, L)]
                ELSE one("Assign")
         [] L.ch = "!" ->
                IF PeekChar(s, L) = "="
                THEN [tok |-> Tok("NotEq"), lex |-> ReadChar(s, L)]
                ELSE one("Bang")
         [] L.ch = "+" -> one("Plus")
         [] L.ch = "<" -> one("LT")
         [] L.ch = ">" -> one("GT")
         [] L.ch = ";" -> one("Semicolon")
         [] L.ch = "{" -> one("LBrace")
         [] L.ch = "}" -> one("RBrace")
         [] L.ch = "(" -> one("LParen")
         [] L.ch = ")" -> one("RParen")
         [] L.ch = "," -> one("Comma")
         [] L.ch = "" -> one("EOF")
         [] L.ch \in letters ->
                Then(ReadWhile(s, L, letters, <<>>), LAMBDA r :
                    [tok |-> LookupKeyword(r.literal), lex |-> r.lex])
         [] L.ch \in digits ->
                Then(ReadWhile(s, L, digits, <<>>), LAMBDA r :
                    [tok |-> ParseI32(r.literal), lex |-> r.lex])
         [] OTHER -> [tok |-> [t |-> "Illegal", c |-> L.ch], lex |-> L]

\* Lexer::new(read_input()): every source of up to MaxChars characters over
\* a few characters of each kind, and some longer lines.
InitLexer ==
    /\ EvaluatorIdle
    /\ ParserIdle
    /\ ReplIdle
    /\ src \in UNION { [1..n -> {"a", "_", "1", "0", " ", "=", "!", ";", "*"}] :
                        n \in 0..MaxChars }
               \cup { <<"l", "e", "t", " ", "x", " ", "=", " ", "5", ";", "\n">>,
                      <<"i", "f", "(", "a", "<", "1", "0", ")", "{", "}">>,
                      <<"2", "1", "4", "7", "4", "8", "3", "6", "4", "7">>,
                      <<"2", "1", "4", "7", "4", "8", "3", "6", "4", "8">>,
                      <<"x", "=", "9", "9", "9", "9", "9", "9", "9", "9", "9", "9", "9", ";">> }
    /\ position = LexerNew(src).position
    /\ read_position = LexerNew(src).read_position
    /\ ch = LexerNew(src).ch
    /\ tok = [t |-> "None"]
    /\ collected = <<>>

\* One turn of the loop: let t = l.next_token(); v.push(t); the loop is left
\* when the last element of v is EOF.  A panic ends the process.
CollectToken ==
    /\ tok.t # "Panic"
    /\ IF collected = <<>> THEN TRUE ELSE collected[Len(collected)] # Tok("EOF")
    /\ LET r == LexNextToken(src, [position |-> position,
                                   read_position |-> read_position, ch |-> ch])
       IN /\ tok' = r.tok
          /\ position' = r.lex.position
          /\ read_position' = r.lex.read_position
          /\ ch' = r.lex.ch
          /\ collected' = IF r.tok.t = "Panic" THEN collected ELSE Append(collected, r.tok)
    /\ UNCHANGED <<src, evars, pvars, rvars>>

\* A call of next_token after the loop has pushed EOF and was left.
NextToken ==
    /\ collected # <<>>
    /\ collected[Len(collected)] = Tok("EOF")
    /\ position <= Len(src) + MaxIdleCalls
    /\ LET r == LexNextToken(src, [position |-> position,
                                   read_position |-> read_position, ch |-> ch])
       IN /\ tok' = r.tok
          /\ position' = r.lex.position
          /\ read_position' = r.lex.read_position
          /\ ch' = r.lex.ch
    /\ UNCHANGED <<src, collected, evars, pvars, rvars>>

SpecLexer == InitLexer /\ [][CollectToken \/ NextToken]_vars

(***************************************************************************)
(* Properties of the parser (SpecParser).                                  *)
(***************************************************************************)
\* The node a primary token stands for.
PrimaryNode(t) == IF t.t = "Int" THEN IntLit(t.i) ELSE Ident(t.s)

\* The state after additive() was called on a fresh parser and returned a node.
AdditiveFromStart ==
    /\ pcall = "additive"
    /\ pfrom = 0
    /\ ~IsPanic(pret)

\* No Multi node of the tree has an Add node as a child.
RECURSIVE NoAddUnderMulti(_)
NoAddUnderMulti(a) ==
    CASE a.kind = "Multi" ->
            /\ a.lhs.kind # "Add"
            /\ a.rhs.kind # "Add"
            /\ NoAddUnderMulti(a.lhs)
            /\ NoAddUnderMulti(a.rhs)
      [] a.kind = "Add" -> NoAddUnderMulti(a.lhs) /\ NoAddUnderMulti(a.rhs)
      [] OTHER -> TRUE

\* C1: multiplication binds tighter than addition.  additive() on a + b * c
\* returns Add(a, Multi(b, c)) and on a * b + c returns Add(Multi(a, b), c),
\* for all primaries a, b, c; and no Multi node that additive() returns has
\* an Add node as a child.
C1_Precedence ==
    AdditiveFromStart =>
        /\ NoAddUnderMulti(pret)
        /\ \A a \in Operands : \A b \in Operands : \A c \in Operands :
            /\ tokens = <<a, Tok("Plus"), b, Tok("Star"), c, Tok("EOF")>> =>
                /\ pret = Add(PrimaryNode(a), Multi(PrimaryNode(b), PrimaryNode(c)))
                /\ index = 5
            /\ tokens = <<a, Tok("Star"), b, Tok("Plus"), c, Tok("EOF")>> =>
                /\ pret = Add(Multi(PrimaryNode(a), PrimaryNode(b)), PrimaryNode(c))
                /\ index = 5

\* 1 + 2 * x was parsed by additive().
C1_Witness ==
    /\ tokens = <<TInt(1), Tok("Plus"), TInt(2), Tok("Star"), TIdent("x"), Tok("EOF")>>
    /\ AdditiveFromStart
    /\ pret = Add(IntLit(1), Multi(IntLit(2), Ident("x")))

\* The operands of a chain of tokens, in order.
RECURSIVE ChainOperands(_)
ChainOperands(ts) ==
    IF ts = <<>> \/ Head(ts) = Tok("EOF") THEN <<>>
    ELSE IF Head(ts).t \in {"Int", "Ident"}
         THEN <<PrimaryNode(Head(ts))>> \o ChainOperands(Tail(ts))
         ELSE ChainOperands(Tail(ts))

\* The operators of a chain of tokens.
ChainOperators(ts) ==
    { ts[k].t : k \in { j \in 1..Len(ts) : ts[j].t \in {"Plus", "Star"} } }

\* The nodes joined into one tree of the given kind that nests to the left.
RECURSIVE LeftNested(_, _)
LeftNested(kind, nodes) ==
    IF Len(nodes) = 1 THEN nodes[1]
    ELSE [kind |-> kind,
          lhs |-> LeftNested(kind, SubSeq(nodes, 1, Len(nodes) - 1)),
          rhs |-> nodes[Len(nodes)]]

\* No Add node of the tree has an Add as its right child, and no Multi node
\* has a Multi as its right child.
RECURSIVE RightChildrenAreOperands(_)
RightChildrenAreOperands(a) ==
    IF a.kind \in {"Add", "Multi"}
    THEN /\ a.rhs.kind # a.kind
         /\ RightChildrenAreOperands(a.lhs)
         /\ RightChildrenAreOperands(a.rhs)
    ELSE TRUE

\* C2: chains of one operator parse left-associatively.  additive() on n >= 2
\* terms joined by `+` (respectively `*`) returns the tree that nests to the
\* left, and the right child of an Add it returns is never an Add.
C2_LeftAssociative ==
    AdditiveFromStart =>
        /\ RightChildrenAreOperands(pret)
        /\ (tokens \in ChainSeqs /\ ChainOperators(tokens) = {"Plus"}) =>
                pret = LeftNested("Add", ChainOperands(tokens))
        /\ (tokens \in ChainSeqs /\ ChainOperators(tokens) = {"Star"}) =>
                pret = LeftNested("Multi", ChainOperands(tokens))

\* 1 + 2 + x was parsed by additive().
C2_Witness ==
    /\ tokens = <<TInt(1), Tok("Plus"), TInt(2), Tok("Plus"), TIdent("x"), Tok("EOF")>>
    /\ AdditiveFromStart
    /\ pret = Add(Add(IntLit(1), IntLit(2)), Ident("x"))

(***************************************************************************)
(* Properties of binary operations (SpecArith).                            *)
(***************************************************************************)
\* The node is a binary operation of the given kind on two integer literals.
IsLiteralOp(n, kind) ==
    /\ n.kind = kind
    /\ n.lhs.kind = "Int"
    /\ n.rhs.kind = "Int"

\* a + b, as a mathematical integer, is an i32.
SumInRange(a, b) ==
    IF b >= 0 THEN a <= I32Max - b ELSE a >= I32Min - b

\* a - b, as a mathematical integer, is an i32.
DifferenceInRange(a, b) ==
    IF b >= 0 THEN a >= I32Min + b ELSE a <= I32Max + b

\* r is the mathematical product of the i32 a and b.
IsProduct(r, a, b) ==
    IF a = 0 THEN r = 0
    ELSE IF a = I32Min THEN (b = 0 /\ r = 0) \/ (b = 1 /\ r = I32Min)
    ELSE IF b = I32Min THEN a = 1 /\ r = I32Min
    ELSE /\ r % Abs(a) = 0
         /\ r \div Abs(a) = (IF a > 0 THEN b ELSE -b)

\* a * b, as a mathematical integer, is an i32.
ProductInRange(a, b) ==
    IF a = 0 \/ b = 0 THEN TRUE
    ELSE IF a = I32Min THEN b = 1
    ELSE IF b = I32Min THEN a = 1
    ELSE IF (a > 0) = (b > 0) THEN Abs(b) <= I32Max \div Abs(a)
    ELSE Abs(b) <= I32Max \div Abs(a) \/ IsProduct(I32Min, a, b)

\* Byte k (0..3) of the two's complement form of the i32 x.
Byte(x, k) == (x \div (256 ^ k)) % 256

\* The column sums of the long addition and the long multiplication of the
\* bytes of a and b, and the running totals with the carries.
SumColumn(a, b, k) == Byte(a, k) + Byte(b, k)

ProductColumn(a, b, k) ==
    CASE k = 0 -> Byte(a, 0) * Byte(b, 0)
      [] k = 1 -> Byte(a, 0) * Byte(b, 1) + Byte(a, 1) * Byte(b, 0)
      [] k = 2 -> Byte(a, 0) * Byte(b, 2) + Byte(a, 1) * Byte(b, 1)
                  + Byte(a, 2) * Byte(b, 0)
      [] k = 3 -> Byte(a, 0) * Byte(b, 3) + Byte(a, 1) * Byte(b, 2)
                  + Byte(a, 2) * Byte(b, 1) + Byte(a, 3) * Byte(b, 0)

RECURSIVE Total(_, _, _, _)
Total(Column(_, _, _), a, b, k) ==
    IF k = 0 THEN Column(a, b, 0)
    ELSE Column(a, b, k) + (Total(Column, a, b, k - 1) \div 256)

\* r is a + b (respectively a * b) modulo 2^32.
IsSumMod32(r, a, b) ==
    \A k \in 0..3 : Byte(r, k) = Total(SumColumn, a, b, k) % 256

IsProductMod32(r, a, b) ==
    \A k \in 0..3 : Byte(r, k) = Total(ProductColumn, a, b, k) % 256

\* C3 as claimed: for all i32 a and b, Add(Int(a), Int(b)) evaluates to
\* Integer(a + b) and Multi(Int(a), Int(b)) to Integer(a * b), also when the
\* mathematical sum or product lies outside the i32 range.
C3_Original ==
    /\ IsLiteralOp(node, "Add") =>
            /\ result.type = "Integer"
            /\ SumInRange(node.lhs.i, node.rhs.i)
            /\ result.i = node.lhs.i + node.rhs.i
    /\ IsLiteralOp(node, "Multi") =>
            /\ result.type = "Integer"
            /\ IsProduct(result.i, node.lhs.i, node.rhs.i)

\* C3 as amended: when the mathematical sum (product) of a and b is an i32,
\* Add (Multi) evaluates to that Integer; when it is not, the evaluation
\* panics in a build with overflow checks and yields the sum (product)
\* modulo 2^32 in a build without.
C3_InRangeOrOverflow ==
    /\ IsLiteralOp(node, "Add") =>
            LET a == node.lhs.i
                b == node.rhs.i
            IN IF SumInRange(a, b) THEN result = Integer(a + b)
               ELSE IF overflow_checks THEN result.type = "Panic"
               ELSE result.type = "Integer" /\ IsSumMod32(result.i, a, b)
    /\ IsLiteralOp(node, "Multi") =>
            LET a == node.lhs.i
                b == node.rhs.i
            IN IF ProductInRange(a, b) THEN result = Integer(a * b)
               ELSE IF overflow_checks THEN result.type = "Panic"
               ELSE result.type = "Integer" /\ IsProductMod32(result.i, a, b)

\* 65536 * 65536 wrapped to 0 in a build without overflow checks.
C3_Witness ==
    /\ node = Multi(IntLit(65536), IntLit(65536))
    /\ ~overflow_checks
    /\ result = Integer(0)

\* C4 as claimed: a Minus node whose children evaluate to Integer(l) and
\* Integer(r) evaluates to Integer(l - r).
C4_MinusIsDifference ==
    (IsLiteralOp(node, "Minus") /\ DifferenceInRange(node.lhs.i, node.rhs.i)) =>
        result = Integer(node.lhs.i - node.rhs.i)

\* The operands of a binary node, evaluated as eval evaluates them: the left
\* one first, the right one against the Environment the left one leaves.
LeftOperand == Eval(node.lhs, env_before, MaxDepth)
RightOperand == Eval(node.rhs, LeftOperand.env, MaxDepth)

NonInteger(o) == o.type \in {"Bool", "Null", "FnDef"}

\* C9: an ill-formed operation never yields a value.  Identifier(n) with n
\* not bound ends in a failure, and Add, Minus, Multi, LT or LTE with an
\* operand that evaluates to a Bool, Null or Function ends in a failure.
C9_IllFormedFails ==
    /\ (node.kind = "Ident" /\ node.s \notin DOMAIN env_before) =>
            result.type = "Panic" /\ ~IsValue(result)
    /\ node.kind \in BinaryKinds =>
            /\ NonInteger(LeftOperand.val) => result.type = "Panic"
            /\ (IsValue(LeftOperand.val) /\ NonInteger(RightOperand.val)) =>
                    result.type = "Panic"
            /\ (IsAbort(LeftOperand.val) \/ IsAbort(RightOperand.val)) =>
                    result.type = "Panic"

\* x < true was evaluated with x bound to an Integer.
C9_Witness ==
    /\ node = LT(Ident("x"), BoolLit(TRUE))
    /\ "x" \in DOMAIN env_before
    /\ env_before["x"] = Integer(2)
    /\ result.type = "Panic"

(***************************************************************************)
(* Properties of conditionals (SpecIf).                                    *)
(***************************************************************************)
\* The condition of an If node, evaluated against the Environment of the call.
Condition == Eval(node.cond, env_before, MaxDepth)

\* The values the truthiness rule calls falsy.
Falsy(o) == o \in {Bool(FALSE), Integer(0), Null}

\* C5: an If follows the truthiness rule.  When the condition evaluates to
\* Bool(false), Integer(0) or Null the result is the value of the alternative
\* if there is one and Null otherwise; for every other condition value the
\* result is the value of the consequence.
C5_Truthiness ==
    (node.kind = "If" /\ IsValue(Condition.val)) =>
        IF Falsy(Condition.val)
        THEN IF node.else_stmt = <<>>
             THEN result = Null
             ELSE result = Eval(node.else_stmt[1], Condition.env, MaxDepth).val
        ELSE result = Eval(node.stmt, Condition.env, MaxDepth).val

\* An If whose condition is a function took its consequence, in a session
\* where a branch taken earlier had bound x to 9.
C5_Witness ==
    /\ node = If(FnOne, IntLit(2), IntLit(0))
    /\ result = Integer(2)
    /\ "x" \in DOMAIN env_before
    /\ env_before["x"] = Integer(9)

(***************************************************************************)
(* Properties of bindings and calls (Spec).                                *)
(***************************************************************************)
\* The names the Lets of a node bind in the Environment the node is
\* evaluated against.
RECURSIVE LetNames(_)
RECURSIVE LetNamesOfAll(_)
LetNamesOfAll(seq) ==
    IF seq = <<>> THEN {} ELSE LetNames(Head(seq)) \cup LetNamesOfAll(Tail(seq))

LetNames(n) ==
    CASE n.kind = "Let" -> {n.name} \cup LetNames(n.expr)
      [] n.kind \in BinaryKinds -> LetNames(n.lhs) \cup LetNames(n.rhs)
      [] n.kind = "If" ->
            LetNames(n.cond) \cup LetNames(n.stmt) \cup LetNamesOfAll(n.else_stmt)
      [] n.kind = "Return" -> LetNames(n.expr)
      [] n.kind = "Compound" -> LetNamesOfAll(n.stmts)
      [] n.kind = "FnCall" -> LetNamesOfAll(n.args)
      [] OTHER -> {}

\* The value expression of a Let node, evaluated against the Environment of
\* the call.
LetValue == Eval(node.expr, env_before, MaxDepth)

\* A Let returns the value of its expression and leaves the Environment the
\* expression left, with the name bound to that value and nothing else changed.
LetBinds ==
    (node.kind = "Let" /\ IsValue(result)) =>
        /\ result = LetValue.val
        /\ DOMAIN global_env = DOMAIN LetValue.env \cup {node.name}
        /\ global_env[node.name] = LetValue.val
        /\ \A n \in DOMAIN LetValue.env \ {node.name} : global_env[n] = LetValue.env[n]

\* An Identifier evaluated right after a Let of its name yields the value of
\* that Let, and an evaluation changes no binding of a name it has no Let for.
LetIsRead ==
    /\ (node.kind = "Let" /\ IsValue(result)
            /\ node'.kind = "Ident" /\ node'.s = node.name) => result' = result
    /\ \A n \in DOMAIN global_env \ LetNames(node') :
            /\ n \in DOMAIN global_env'
            /\ global_env'[n] = global_env[n]
    /\ node'.kind = "Ident" /\ node'.s \in DOMAIN global_env =>
            result' = global_env[node'.s]

\* C6: Let(name, e) returns the value v of e and leaves the Environment with
\* name bound to v and every other binding unchanged, so that Identifier(name)
\* yields the value of the most recent Let of that name.
C6_LetThenRead == [](LetBinds) /\ [][LetIsRead]_vars

\* x was bound, then y, then x was bound again to another value.
C6_Witness ==
    /\ node = Let("x", IntLit(5))
    /\ result = Integer(5)
    /\ DOMAIN env_before = {"x", "y"}
    /\ env_before["x"] = Integer(2)
    /\ global_env["x"] = Integer(5)
    /\ global_env["y"] = env_before["y"]

\* The function object the literal lit evaluates to.
FunctionOf(lit) == ObjectFunc(lit.args, lit.stmts)

\* C7 as claimed: a function defined in an Environment reads, when called,
\* the names bound in that Environment: with y bound and f = fn() { y },
\* the call f() yields the value of y.
C7_ClosureReadsDefiningEnv ==
    (/\ node = FnCall("f", <<>>)
     /\ {"f", "y"} \subseteq DOMAIN env_before
     /\ env_before["f"] = FunctionOf(FnReadY)) =>
        result = env_before["y"]

\* g applied to one argument: the body evaluated with the parameter bound.
ApplyOne(g, arg) ==
    IF IsAbort(arg) THEN arg
    ELSE LET b == EvalAll(g.stmts, (g.args[1] :> arg), MaxDepth, <<>>)
         IN IF IsAbort(b.abort) THEN b.abort ELSE LastObject(b.vals)

\* C8: functions are first-class arguments and nested calls compose.  With
\* twice = fn(f, x) { f(f(x)) }, the call twice(g, v) yields g(g(v)) for
\* every one-parameter function g and integer v.
C8_TwiceComposes ==
    (/\ node.kind = "FnCall"
     /\ node.name = "twice"
     /\ "twice" \in DOMAIN env_before
     /\ env_before["twice"] = FunctionOf(FnTwice)) =>
        LET g == FunctionOf(node.args[1])
            v == Integer(node.args[2].i)
        IN result = ApplyOne(g, ApplyOne(g, v))

\* twice(fn(a) { return a + 1; }, 0) yielded 2.
C8_Witness ==
    /\ node = FnCall("twice", <<FnLit(<<"a">>, <<Return(Add(Ident("a"), IntLit(1)))>>),
                                IntLit(0)>>)
    /\ result = Integer(2)

\* The arguments of a call node, evaluated against the Environment of the
\* call, and the object the called name is then bound to.
Arguments == EvalAll(node.args, env_before, MaxDepth, <<>>)
Callee == EnvGet(Arguments.env, node.name)

\* The call node reached the evaluation of a function body.
CallsFunction ==
    /\ node.kind = "FnCall"
    /\ ~IsAbort(Arguments.abort)
    /\ Callee.type = "FnDef"

\* The parameters of the callee that receive an argument.
BoundParameters ==
    { Callee.args[k] : k \in 1..(IF Len(Callee.args) < Len(Arguments.vals)
                                 THEN Len(Callee.args) ELSE Len(Arguments.vals)) }

\* The object Identifier(name) yields at the start of the body of the call.
SelfInBody == Eval(Ident(node.name), CallEnv(Callee, node.name, Arguments.vals), MaxDepth).val

\* C10 as claimed: inside the body of every call through a name, that name
\* resolves to the called function.
C10_Original == CallsFunction => SelfInBody = Callee

\* C10 as amended: inside the body of a call through a name, the name
\* resolves to the called function unless a parameter that receives an
\* argument has that name; a body that calls itself by that name recurses
\* (here to every depth below MaxDepth) with the same binding at each level.
C10_SelfBinding ==
    CallsFunction =>
        /\ node.name \notin BoundParameters => SelfInBody = Callee
        /\ (Callee = FunctionOf(FnSelf) /\ node.name = "f") => result = Callee
        /\ (/\ Callee = FunctionOf(FnCount)
            /\ node.name = "f"
            /\ Len(Arguments.vals) >= 1
            /\ Arguments.vals[1].type = "Integer"
            /\ Arguments.vals[1].i \in 0..(MaxDepth - 1)) => result = Callee

\* The countdown function called itself three times and returned itself.
C10_Witness ==
    /\ node = FnCall("f", <<IntLit(3)>>)
    /\ "f" \in DOMAIN env_before
    /\ env_before["f"] = FunctionOf(FnCount)
    /\ result = FunctionOf(FnCount)

(***************************************************************************)
(* Properties of call setup (SpecCall).                                    *)
(***************************************************************************)
\* The Environment after the first k nodes of seq were evaluated one after
\* another, starting from the Environment of the call, and the object the
\* k-th node then gives.
RECURSIVE EnvAfter(_, _)
EnvAfter(seq, k) ==
    IF k = 0 THEN env_before
    ELSE Eval(seq[k], EnvAfter(seq, k - 1), MaxDepth).env

ValueAt(seq, k) == Eval(seq[k], EnvAfter(seq, k - 1), MaxDepth).val

AllValues(seq) == \A k \in 1..Len(seq) : IsValue(ValueAt(seq, k))

\* The position of the last bound parameter named p.
LastBound(p) ==
    CHOOSE k \in 1..Len(Callee.args) :
        /\ k <= Len(Arguments.vals)
        /\ Callee.args[k] = p
        /\ \A j \in (k + 1)..Len(Callee.args) :
                j <= Len(Arguments.vals) => Callee.args[j] # p

\* The call environment as the positional rule describes it: the called name,
\* and the parameters that have an argument at their position.
PositionalEnv ==
    [p \in DOMAIN Callee.env \cup {node.name} \cup BoundParameters |->
        IF p \in BoundParameters THEN Arguments.vals[LastBound(p)]
        ELSE IF p = node.name THEN Callee
        ELSE Callee.env[p]]

\* What the body of the callee gives in the positional environment.
BodyInPositionalEnv ==
    LET b == EvalAll(Callee.stmts, PositionalEnv, MaxDepth - 1, <<>>)
    IN IF IsAbort(b.abort) THEN b.abort ELSE LastObject(b.vals)

\* C11: a call whose argument count differs from the parameter count does not
\* fail at call setup.  The parameters are bound by position to the first
\* min(#params, #args) argument values, surplus arguments are evaluated and
\* ignored, surplus parameters stay unbound, and the call fails only if the
\* body reads an unbound parameter.
C11_ArityMismatch ==
    CallsFunction =>
        /\ CallEnv(Callee, node.name, Arguments.vals) = PositionalEnv
        /\ result = BodyInPositionalEnv
        /\ global_env = Arguments.env
        /\ (Callee = FunctionOf(FnOne)) => result = Integer(1)
        /\ (Callee = FunctionOf(FnFirst) /\ Len(Arguments.vals) >= 1) =>
                result = Arguments.vals[1]
        /\ (Callee = FunctionOf(FnFirst) /\ Len(Arguments.vals) = 0) =>
                result = Panic("Undefined variable")
        /\ (Callee = FunctionOf(FnSecond) /\ Len(Arguments.vals) >= 2) =>
                result = Arguments.vals[2]
        /\ (Callee = FunctionOf(FnSecond) /\ Len(Arguments.vals) < 2) =>
                result = Panic("Undefined variable")

\* fn(a, b) { b } was called with three arguments, the third of them a Let.
C11_Witness ==
    /\ node = FnCall("f", <<IntLit(7), IntLit(8), Let("y", IntLit(9))>>)
    /\ "f" \in DOMAIN env_before
    /\ env_before["f"] = FunctionOf(FnSecond)
    /\ "y" \notin DOMAIN env_before
    /\ result = Integer(8)
    /\ global_env["y"] = Integer(9)

\* What the function fnobj, called through name with the given values, gives.
Applied(fnobj, name, values) ==
    LET b == EvalAll(fnobj.stmts, CallEnv(fnobj, name, values), MaxDepth - 1, <<>>)
    IN IF IsAbort(b.abort) THEN b.abort ELSE LastObject(b.vals)

\* The values of the arguments of the call node, taken one after another.
ValuesInOrder == [k \in 1..Len(node.args) |-> ValueAt(node.args, k)]

\* C12: in a call every argument is evaluated, left to right, against the
\* caller's Environment before the called name is looked up.  What an earlier
\* argument binds is seen by the later arguments and by the lookup of the
\* callee, so an argument that rebinds the called name changes the function
\* that is invoked.
C12_ArgumentsFirst ==
    (node.kind = "FnCall" /\ AllValues(node.args)) =>
        LET after == EnvAfter(node.args, Len(node.args))
            callee == EnvGet(after, node.name)
        IN /\ global_env = after
           /\ callee.type = "FnDef" => result = Applied(callee, node.name, ValuesInOrder)
           /\ callee.type # "FnDef" => result.type = "Panic"
           /\ node = FnCall("f", <<Let("f", FnOne)>>) => result = Integer(1)
           /\ node = FnCall("x", <<Let("x", FnOne)>>) => result = Integer(1)
           /\ node = FnCall("f", <<Let("f", FnSecond), IntLit(8)>>) =>
                    result = Integer(8)
           /\ (node = FnCall("f", <<Let("y", IntLit(1)), Ident("y")>>)
                    /\ callee = FunctionOf(FnSecond)) => result = Integer(1)
           /\ (node = FnCall("f", <<Ident("y"), Let("y", IntLit(1))>>)
                    /\ callee = FunctionOf(FnFirst)) => result = env_before["y"]

\* f was bound to fn(a, b) { a }; f(let f = fn() { return 1; }) called the
\* function its argument had just bound.
C12_Witness ==
    /\ node = FnCall("f", <<Let("f", FnOne)>>)
    /\ "f" \in DOMAIN env_before
    /\ env_before["f"] = FunctionOf(FnFirst)
    /\ result = Integer(1)
    /\ global_env["f"] = FunctionOf(FnOne)

\* C13: a call through a name that is bound to an Integer, a Bool or Null, or
\* that is not bound at all, ends in a failure: no function body is evaluated
\* and no value is returned.
C13_NotAFunction ==
    (node.kind = "FnCall" /\ ~IsAbort(Arguments.abort)) =>
        /\ node.name \notin DOMAIN Arguments.env =>
                /\ result = Panic("Undefined variable")
                /\ global_env = Arguments.env
        /\ (/\ node.name \in DOMAIN Arguments.env
            /\ Arguments.env[node.name].type \in {"Integer", "Bool", "Null"}) =>
                /\ result = Panic("you tried to call undefined function.")
                /\ global_env = Arguments.env

\* x was bound to Null and x(let y = 5) was called.
C13_Witness ==
    /\ node = FnCall("x", <<Let("y", IntLit(5))>>)
    /\ "x" \in DOMAIN env_before
    /\ env_before["x"] = Null
    /\ result.type = "Panic"

\* C17 as claimed: two functions created in one scope share that scope.  A
\* Let executed in the scope after get = fn() { x } was defined is seen by
\* the next call of get, and so is the Let that set = fn() { let x = 2; }
\* executes when it is called before get.
C17_SharedScope ==
    /\ (/\ node = FnCall("get", <<>>)
        /\ {"get", "x"} \subseteq DOMAIN env_before
        /\ env_before["get"] = FunctionOf(FnGetX)) =>
            result = env_before["x"]
    /\ (/\ node = Compound(<<FnCall("set", <<>>), FnCall("get", <<>>)>>)
        /\ {"get", "set"} \subseteq DOMAIN env_before
        /\ env_before["get"] = FunctionOf(FnGetX)
        /\ env_before["set"] = FunctionOf(FnSetX)) =>
            result = Integer(2)

(***************************************************************************)
(* Properties of blocks and returns (SpecBlock).                           *)
(***************************************************************************)
\* C14: a block evaluates its statements in order against the Environment it
\* was given and opens no scope.  A Let of the block is seen by the later
\* statements and stays bound after the block, and the value of the block is
\* the value of its last statement.
C14_BlockSameEnvironment ==
    (node.kind = "Compound" /\ node.stmts # <<>> /\ AllValues(node.stmts)) =>
        /\ result = ValueAt(node.stmts, Len(node.stmts))
        /\ global_env = EnvAfter(node.stmts, Len(node.stmts))
        /\ \A k \in 1..Len(node.stmts) :
                node.stmts[k].kind = "Let" =>
                    /\ node.stmts[k].name \in DOMAIN global_env
                    /\ (\A j \in (k + 1)..Len(node.stmts) :
                            node.stmts[k].name \notin LetNames(node.stmts[j])) =>
                                global_env[node.stmts[k].name] = ValueAt(node.stmts, k)

\* { let x = 2; x + 1 } was evaluated with x unbound: it gave 3 and left x
\* bound to 2.
C14_Witness ==
    /\ node = Compound(<<Let("x", IntLit(2)), Add(Ident("x"), IntLit(1))>>)
    /\ "x" \notin DOMAIN env_before
    /\ result = Integer(3)
    /\ global_env["x"] = Integer(2)

\* C15: a block with zero statements fails instead of returning a value, and
\* so does a call of a function whose body has zero statements.
C15_EmptyBlockFails ==
    /\ node = Compound(<<>>) =>
            /\ result.type = "Panic"
            /\ global_env = env_before
    /\ (node.kind = "Return" /\ node.expr = Compound(<<>>)) => result.type = "Panic"
    /\ node = Compound(<<IntLit(1), Compound(<<>>)>>) => result.type = "Panic"
    /\ (CallsFunction /\ Callee.stmts = <<>>) =>
            /\ result.type = "Panic"
            /\ global_env = Arguments.env

\* f was bound to fn() { } and f(6) was called.
C15_Witness ==
    /\ node = FnCall("f", <<IntLit(6)>>)
    /\ "f" \in DOMAIN env_before
    /\ env_before["f"] = FunctionOf(FnEmpty)
    /\ result.type = "Panic"

\* The Return nodes among the statements, the last statement left out.
EarlyReturns(stmts) ==
    { k \in 1..(Len(stmts) - 1) : stmts[k].kind = "Return" }

\* C16: Return has no control-flow effect.  Return(e) gives the value and the
\* Environment that e gives, and a Return that is not the last statement of
\* a block or of a function body does not stop the statements after it:
\* Block[Return(1), 2] gives Integer(2).
C16_ReturnIsTransparent ==
    /\ node.kind = "Return" =>
            /\ result = Eval(node.expr, env_before, MaxDepth).val
            /\ global_env = Eval(node.expr, env_before, MaxDepth).env
    /\ (node.kind = "Compound" /\ EarlyReturns(node.stmts) # {}
            /\ AllValues(node.stmts)) =>
            result = ValueAt(node.stmts, Len(node.stmts))
    /\ node = Compound(<<Return(IntLit(1)), IntLit(2)>>) => result = Integer(2)
    /\ node = Compound(<<Return(Let("y", IntLit(3))), Ident("y")>>) =>
            result = Integer(3)
    /\ (CallsFunction /\ Callee = FunctionOf(FnReturnFirst)) => result = Integer(2)

\* f was bound to fn() { return 1; 2 } and the call f() gave 2.
C16_Witness ==
    /\ node = FnCall("f", <<>>)
    /\ "f" \in DOMAIN env_before
    /\ env_before["f"] = FunctionOf(FnReturnFirst)
    /\ result = Integer(2)

(***************************************************************************)
(* Properties of the statement rules (SpecStatements).                     *)
(***************************************************************************)
\* C18 as claimed: let_stmt accepts exactly `let` IDENT `=` Expression `;`.
\* It fails when the token after `let` is not an identifier, when `=` is
\* missing, or when the closing `;` is missing, and the name of a Let node it
\* returns is always an identifier.
C18_LetNeedsIdent ==
    pcall = "let_stmt" =>
        /\ TokenAt(tokens, pfrom) # Tok("Let") => IsPanic(pret)
        /\ TokenAt(tokens, pfrom + 1).t # "Ident" => IsPanic(pret)
        /\ TokenAt(tokens, pfrom + 2) # Tok("Assign") => IsPanic(pret)
        /\ ~IsPanic(pret) =>
                /\ pret.kind = "Let"
                /\ pret.name.kind = "Ident"
                /\ index >= 1
                /\ TokenAt(tokens, index - 1) = Tok("Semicolon")

\* The node a statement form stands for.
FormNode(f) ==
    CASE f = <<TInt(1), Tok("Plus"), TInt(2), Tok("Semicolon")>> ->
            Add(IntLit(1), IntLit(2))
      [] f = <<Tok("Return"), TIdent("x"), Tok("Star"), TInt(2), Tok("Semicolon")>> ->
            Return(Multi(Ident("x"), IntLit(2)))
      [] f = <<Tok("Let"), TIdent("x"), Tok("Assign"), TInt(10), Tok("Semicolon")>> ->
            PLet(Ident("x"), IntLit(10))
      [] f = <<Tok("LBrace"), TInt(1), Tok("Semicolon"), TIdent("x"), Tok("Semicolon"),
               Tok("RBrace")>> ->
            Compound(<<IntLit(1), Ident("x")>>)
      [] f = <<Tok("LBrace"), Tok("RBrace")>> ->
            Compound(<<>>)
      [] f = <<Tok("If"), TInt(1), TInt(2), Tok("Semicolon")>> ->
            IfNoElse(IntLit(1), IntLit(2))
      [] f = <<Tok("If"), TIdent("x"), Tok("Return"), TInt(1), Tok("Semicolon"),
               Tok("Else"), Tok("Return"), TInt(2), Tok("Semicolon")>> ->
            If(Ident("x"), Return(IntLit(1)), Return(IntLit(2)))

\* The nodes of the statements that come before the unterminated one.
NodesBeforeUnterminated(ts) ==
    CASE ts = <<TInt(1), Tok("Plus"), TInt(2), Tok("Semicolon"), TIdent("x"),
                Tok("EOF")>> ->
            <<Add(IntLit(1), IntLit(2))>>
      [] ts = <<Tok("Let"), TIdent("x"), Tok("Assign"), TInt(1), Tok("Semicolon"),
                Tok("Return"), TIdent("x"), Tok("EOF")>> ->
            <<PLet(Ident("x"), IntLit(1))>>
      [] OTHER -> <<>>

\* parse() was called on a fresh parser.
ParseFromStart ==
    /\ pcall = "parse"
    /\ pfrom = 0

\* C19: parse on k well-formed statements followed by EOF leaves exactly k
\* nodes in result, in source order, with the cursor on the EOF token; an
\* expression statement or return statement whose expression is not followed
\* by `;` makes parse fail, and no node is pushed for it.
C19_ParseYieldsStatements ==
    ParseFromStart =>
        /\ \A p \in Programs :
                tokens = ProgramTokens(p) \o <<Tok("EOF")>> =>
                    /\ ~IsPanic(pret)
                    /\ Len(presult) = Len(p)
                    /\ \A k \in 1..Len(p) : presult[k] = FormNode(p[k])
                    /\ index = Len(tokens) - 1
                    /\ TokenAt(tokens, index) = Tok("EOF")
        /\ tokens \in UnterminatedSeqs =>
                /\ IsPanic(pret)
                /\ presult = NodesBeforeUnterminated(tokens)

\* 1 + 2; return x * 2; was parsed.
C19_Witness ==
    /\ ParseFromStart
    /\ tokens = <<TInt(1), Tok("Plus"), TInt(2), Tok("Semicolon"),
                  Tok("Return"), TIdent("x"), Tok("Star"), TInt(2), Tok("Semicolon"),
                  Tok("EOF")>>
    /\ presult = <<Add(IntLit(1), IntLit(2)), Return(Multi(Ident("x"), IntLit(2)))>>
    /\ index = 9

\* if_stmt() was called on a fresh parser.
IfFromStart ==
    /\ pcall = "if_stmt"
    /\ pfrom = 0

\* The condition and the consequence of the if statement that starts at pfrom.
IfCondition == PExpression(tokens, GetIndex(tokens, pfrom))
IfConsequence == PStatement(tokens, IfCondition.idx)
IfAlternative == PStatement(tokens, IfConsequence.idx + 1)

\* C20: if_stmt parses `if` Expression Statement and an optional `else`
\* Statement chosen by one token of lookahead.  When the token after the
\* consequence is `else`, the node has an alternative and the `else` is
\* consumed; otherwise there is no alternative and no token after the
\* consequence is consumed.  In `if a if b s1 else s2` the else goes to the
\* inner if.
C20_OptionalElse ==
    /\ (pcall = "if_stmt" /\ ~IsPanic(pret)) =>
            IF TokenAt(tokens, IfConsequence.idx) = Tok("Else")
            THEN /\ pret = If(IfCondition.ast, IfConsequence.ast, IfAlternative.ast)
                 /\ index = IfAlternative.idx
            ELSE /\ pret = IfNoElse(IfCondition.ast, IfConsequence.ast)
                 /\ index = IfConsequence.idx
    /\ (IfFromStart /\ tokens = <<Tok("If"), TInt(1), TInt(2), Tok("Semicolon"),
                                  TInt(3), Tok("Semicolon"), Tok("EOF")>>) =>
            /\ pret = IfNoElse(IntLit(1), IntLit(2))
            /\ index = 4
    /\ (IfFromStart /\ tokens = <<Tok("If"), TIdent("a"), Tok("If"), TIdent("b"),
                                  TInt(1), Tok("Semicolon"), Tok("Else"), TInt(2),
                                  Tok("Semicolon"), Tok("EOF")>>) =>
            /\ pret = IfNoElse(Ident("a"), If(Ident("b"), IntLit(1), IntLit(2)))
            /\ index = 9
    /\ (IfFromStart /\ tokens = <<Tok("If"), TIdent("a"), Tok("If"), TIdent("b"),
                                  TInt(1), Tok("Semicolon"), Tok("Else"), TInt(2),
                                  Tok("Semicolon"), Tok("Else"), TInt(3),
                                  Tok("Semicolon"), Tok("EOF")>>) =>
            /\ pret = If(Ident("a"), If(Ident("b"), IntLit(1), IntLit(2)), IntLit(3))
            /\ index = 12
    /\ (IfFromStart /\ tokens = <<Tok("If"), TInt(1), TInt(2), Tok("Semicolon"),
                                  Tok("Else")>>) =>
            IsPanic(pret)

\* if a if b 1; else 2; was parsed by if_stmt(): the else went to the inner if.
C20_Witness ==
    /\ IfFromStart
    /\ tokens = <<Tok("If"), TIdent("a"), Tok("If"), TIdent("b"), TInt(1),
                  Tok("Semicolon"), Tok("Else"), TInt(2), Tok("Semicolon"), Tok("EOF")>>
    /\ pret = IfNoElse(Ident("a"), If(Ident("b"), IntLit(1), IntLit(2)))
    /\ index = 9

(***************************************************************************)
(* repl::start (repl.rs): one Evaluator is made before the loop; each turn *)
(* of the loop reads a line, lexes and parses it, and evaluates and prints *)
(* the statements of p.result in order.  A line is taken here as the       *)
(* statements the evaluator is handed.                                     *)
(***************************************************************************)
Lines ==
    { <<>>,
      <<Let("x", IntLit(2))>>,
      <<Let("x", IntLit(7))>>,
      <<Let("y", IntLit(5))>>,
      <<Let("x", Add(Ident("x"), IntLit(1)))>>,
      <<Let("f", FnOne)>>,
      <<Ident("x")>>,
      <<Ident("y")>>,
      <<Add(Ident("x"), Ident("y"))>>,
      <<FnCall("f", <<>>)>>,
      <<FnCall("f", <<Let("y", IntLit(9))>>)>>,
      <<Let("x", IntLit(1)), Let("y", Ident("x"))>>,
      <<Ident("x"), Ident("z")>>,
      <<IntLit(3), Let("x", BoolLit(TRUE))>> }

\* One turn of the loop, against the given Environment: for s in p.result,
\* println!(ev.eval(s)).  The first panic ends the process.
LineOutcome(l, env) ==
    LET r == EvalAll(l, env, MaxDepth, <<>>)
        aborted == IsAbort(r.abort)
        calls == IF aborted THEN Len(r.vals) + 1 ELSE Len(l)
    IN [env |-> r.env,
        printed |-> r.vals,
        calls |-> calls,
        last |-> IF calls = 0 THEN NoNode ELSE l[calls],
        result |-> IF aborted THEN r.abort
                   ELSE IF calls = 0 THEN NoObject ELSE r.vals[calls],
        before |-> IF calls = 0 THEN env
                   ELSE EvalAll(SubSeq(l, 1, calls - 1), env, MaxDepth, <<>>).env]

\* A turn that makes a new Evaluator for the line it reads.
ReplLineFreshEvaluator(l) ==
    /\ LET o == LineOutcome(l, EnvironmentNew)
       IN /\ global_env' = o.env
          /\ printed' = o.printed
          /\ steps' = steps + o.calls
          /\ node' = IF o.calls = 0 THEN node ELSE o.last
          /\ result' = IF o.calls = 0 THEN result ELSE o.result
          /\ env_before' = o.before
    /\ line' = l
    /\ line_env' = global_env
    /\ UNCHANGED <<overflow_checks, pvars, lvars>>

ReplLine(l) ==
    /\ LET o == LineOutcome(l, global_env)
       IN /\ global_env' = o.env
          /\ printed' = o.printed
          /\ steps' = steps + o.calls
          /\ node' = IF o.calls = 0 THEN node ELSE o.last
          /\ result' = IF o.calls = 0 THEN result ELSE o.result
          /\ env_before' = o.before
    /\ line' = l
    /\ line_env' = global_env
    /\ UNCHANGED <<overflow_checks, pvars, lvars>>

ReadLine ==
    \E l \in Lines :
        /\ CanEval
        /\ ReplLine(l)

SpecRepl == Init /\ [][ReadLine]_vars

(***************************************************************************)
(* Properties of the session (SpecRepl).                                   *)
(***************************************************************************)
\* What was bound when the line was read is still bound after it, and to the
\* same object unless the line has a Let of that name.
LineKeepsBindings ==
    \A n \in DOMAIN line_env :
        /\ n \in DOMAIN global_env
        /\ n \notin LetNamesOfAll(line) => global_env[n] = line_env[n]

\* The next line is read into the Environment the lines before it left, and
\* a line that is one bound name prints the object the name is bound to.
NextLineSeesBindings ==
    /\ line_env' = global_env
    /\ \A n \in DOMAIN global_env :
            line' = <<Ident(n)>> => printed' = <<global_env[n]>>

\* C21: one global Environment serves every line of a session.  A name a
\* top-level let bound on one line is still bound, to the same value, when a
\* later line is evaluated, until a later let binds it again.
C21_OneGlobalEnvironment == [](LineKeepsBindings) /\ [][NextLineSeesBindings]_vars

\* x was bound on one line, y on the next, and a third line read x.
C21_Witness ==
    /\ line = <<Ident("x")>>
    /\ printed = <<Integer(2)>>
    /\ DOMAIN line_env = {"x", "y"}
    /\ steps = 3

(***************************************************************************)
(* Properties of the call environment (Spec).                              *)
(***************************************************************************)
\* The argument the parameter of that name receives (the last one, should
\* several parameters share the name).
ArgumentFor(name) ==
    LET n == IF Len(Callee.args) < Len(Arguments.vals)
             THEN Len(Callee.args) ELSE Len(Arguments.vals)
        k == CHOOSE i \in 1..n :
                /\ Callee.args[i] = name
                /\ \A j \in (i + 1)..n : Callee.args[j] # name
    IN Arguments.vals[k]

\* C22: the called name is bound before the parameters, so a parameter named
\* like the name the function is called through holds its argument inside
\* the body: after let x = fn(x) { return 1 + x; }, x(1) is Integer(2) and
\* x(3) is Integer(4), not a failure of adding a function.
C22_ParameterWins ==
    CallsFunction =>
        /\ node.name \in BoundParameters => SelfInBody = ArgumentFor(node.name)
        /\ (/\ Callee = FunctionOf(FnParamX)
            /\ node.name = "x"
            /\ Len(Arguments.vals) = 1
            /\ Arguments.vals[1].type = "Integer"
            /\ AddFits(1, Arguments.vals[1].i))
           => result = Integer(1 + Arguments.vals[1].i)

\* fn(x) { return 1 + x; } was bound to x and called through x with 1.
C22_Witness ==
    /\ node = FnCall("x", <<IntLit(1)>>)
    /\ "x" \in DOMAIN env_before
    /\ env_before["x"] = FunctionOf(FnParamX)
    /\ result = Integer(2)

(***************************************************************************)
(* Properties of an activation (SpecActivation).                           *)
(***************************************************************************)
\* The names a call binds in its own Environment: the called name, the
\* parameters and the names of the Lets of the body.
ActivationNames == {node.name} \cup BoundParameters \cup LetNamesOfAll(Callee.stmts)

\* C23: the Environment of a call belongs to that activation alone.  After
\* the call returns the caller holds exactly the bindings it held once the
\* arguments were evaluated: no parameter, self-name or body Let shows in the
\* caller, the function object the caller holds has kept its empty
\* Environment, and so a second call of the function finds nothing the first
\* one bound.
C23_PrivateActivation ==
    /\ (CallsFunction /\ ~IsAbort(result)) =>
            /\ global_env = Arguments.env
            /\ \A p \in ActivationNames :
                    /\ p \notin DOMAIN Arguments.env => p \notin DOMAIN global_env
                    /\ p \in DOMAIN Arguments.env => global_env[p] = Arguments.env[p]
    /\ \A n \in DOMAIN global_env :
            global_env[n].type = "FnDef" => global_env[n].env = EnvironmentNew
    /\ (/\ node = Compound(<<FnCall("f", <<BoolLit(TRUE)>>), FnCall("f", <<BoolLit(FALSE)>>)>>)
        /\ EnvGet(env_before, "f") = FunctionOf(FnLeak))
       => result = Panic("Undefined variable")
    /\ (/\ node = Compound(<<FnCall("g", <<IntLit(1)>>), Ident("t")>>)
        /\ EnvGet(env_before, "g").type = "FnDef")
       => result = EnvGet(env_before, "t")

\* f bound t in its first call; the second call of f, in the same block,
\* looked t up and did not find it.
C23_Witness ==
    /\ node = Compound(<<FnCall("f", <<BoolLit(TRUE)>>), FnCall("f", <<BoolLit(FALSE)>>)>>)
    /\ EnvGet(env_before, "f") = FunctionOf(FnLeak)
    /\ result = Panic("Undefined variable")
    /\ DOMAIN global_env = {"f"}

(***************************************************************************)
(* Properties of the cursor (SpecCursor).                                  *)
(***************************************************************************)
\* The cursor stays inside the slice, and a parse that returned left it on EOF.
CursorInRange ==
    /\ 0 <= index
    /\ index <= Len(tokens)
    /\ (pcall = "parse" /\ ~IsPanic(pret)) => TokenAt(tokens, index) = Tok("EOF")

\* One call of a method: the cursor never moves back, peek leaves it, get
\* moves it by one while a token remains, a method that returns a node has
\* consumed a token, and parse consumes at least one token for each
\* statement it adds to its result.
CursorMoves ==
    /\ index' >= index
    /\ pcall' = "peek" => index' = index
    /\ pcall' = "get" => index' = (IF index < Len(tokens) THEN index + 1 ELSE index)
    /\ (pcall' \notin {"peek", "get", "parse"} /\ ~IsPanic(pret')) => index' > index
    /\ Len(presult') - Len(presult) <= index' - index
    /\ Len(presult') >= Len(presult)

\* C24: the cursor moves forward one token at a time and parsing ends.  peek
\* never changes index; get adds exactly 1 while a token remains and nothing
\* at the end; 0 <= index <= len(tokens) always; on every token slice, with
\* or without a final EOF or a closing `}`, parse ends, returning with the
\* cursor on EOF or failing, and no loop of it turns without consuming a
\* token.
C24_CursorAdvances == [](CursorInRange) /\ [][CursorMoves]_vars

\* parse ran off the end of a block that is never closed and failed there.
C24_Witness ==
    /\ tokens = <<Tok("LBrace"), TInt(1), Tok("Semicolon")>>
    /\ pcall = "parse"
    /\ pfrom = 0
    /\ IsPanic(pret)
    /\ index = Len(tokens)

\* parse returned with the cursor on EOF after one statement.
C24_WitnessReturns ==
    /\ tokens = <<TInt(1), Tok("Semicolon"), Tok("EOF")>>
    /\ pcall = "parse"
    /\ pret = NoNode
    /\ presult = <<IntLit(1)>>
    /\ index = 2

(***************************************************************************)
(* Properties of the lexer (SpecLexer).                                    *)
(***************************************************************************)
\* Every call of next_token so far has returned a token.
ReturnsToken == tok.t # "Panic"

\* EOF is the token of a call exactly when the call has read past the end of
\* the source; the loop has pushed at most one token for each character and
\* one for the end, and EOF only as the last of them.
EndsWithEOF ==
    /\ tok = Tok("EOF") <=> position > Len(src)
    /\ Len(collected) <= Len(src) + 1
    /\ \A k \in 1..(Len(collected) - 1) : collected[k] # Tok("EOF")

\* The first token of the source from its character number p + 1 onwards.
FirstTokenFrom(p) ==
    LexNextToken(SubSeq(src, p + 1, Len(src)),
                 LexerNew(SubSeq(src, p + 1, Len(src)))).tok

\* One call of next_token: after EOF comes EOF; a call that returns another
\* token has consumed a character; and after an identifier or an integer
\* the call starts at the character that ended the literal, so its token is
\* the first token of the source from that character onwards.
LexerAdvances ==
    /\ tok = Tok("EOF") => tok' = Tok("EOF")
    /\ tok' # Tok("EOF") => position' > position
    /\ (tok.t \in {"Int", "Ident"} /\ position < Len(src)) =>
            /\ src[position + 1] = PeekChar(src, [position |-> position])
            /\ tok' = FirstTokenFrom(position)

\* C25: on every finite source, calls of next_token return EOF after
\* finitely many calls and EOF on every call after that, so the collection
\* loop of the REPL ends with a token list whose only EOF is its last
\* element; each call before EOF consumes at least one character, and the
\* character that ended an identifier or an integer starts the next token.
C25_LexerReachesEOF ==
    [](ReturnsToken /\ EndsWithEOF) /\ [][LexerAdvances]_vars

====
